---- MODULE Spec2Model ----
(***************************************************************************)
(* Model of the orchestration core of ddb (src/ddb/__main__.py): feature   *)
(* resolution (register_features), the feature lifecycle                   *)
(* (load_registered_features), the binding of actions to the event bus     *)
(* (register_actions_in_event_bus), command execution                      *)
(* (handle_command_line) and the process exit (main, console_script).      *)
(***************************************************************************)
EXTENDS Integers, Sequences, FiniteSets, TLC

\* Bound on the number of dependency entries (declared tokens plus entries of
\* the configured `dependencies` map) of a feature set, specification SpecFeatures.
MaxDeps == 2
\* The same bound for specification Spec, which explores the behaviour of
\* features and handlers widely and the dependency graph narrowly.
MaxRunDeps == 1
\* Bound on the number of dependency entries of the graphs in which the
\* configured map names a feature that was not discovered.
MaxKeyDeps == 3
\* Bound on the number of features the 'ddb_features' entry points load.
MaxEntryPoints == 2
\* Bound on the number of files the walking handler finds (nested emissions).
MaxFiles == 1
\* Bound on the number of reset() calls the caller of main makes.
MaxResets == 2

(***************************************************************************)
(* The feature set.                                                        *)
(***************************************************************************)
\* The features get_default_features() returns, in the tuple's order.
DefaultFeatures == <<"c", "a", "b">>

Features == {DefaultFeatures[i] : i \in 1..Len(DefaultFeatures)}

\* A name that dependencies may mention and that no discovered feature has.
Absent == "x"

Names == Features \cup {Absent}

\* Python's order of str, as sorted() uses it in toposort_flatten(sort=True).
NameRank == [a |-> 1, b |-> 2, c |-> 3, x |-> 4]

OptionalSuffix == "[optional]"

\* A dependency token "name" or "name[optional]": the name and its suffix.
Tokens == [base : Names, suffix : {"", OptionalSuffix}]

\* An entry of config.data['dependencies']: key feat, one element dep of its
\* list; dep = "" stands for no element (a key whose list is empty).
OverrideEntries == [feat : Names, dep : Names \cup {""}]

(***************************************************************************)
(* Sequences and sets.                                                     *)
(***************************************************************************)
Range(s) == {s[i] : i \in 1..Len(s)}

RECURSIVE SetsUpTo(_, _)
\* The subsets of U with at most k elements.
SetsUpTo(U, k) ==
  IF k = 0 THEN {{}}
  ELSE LET smaller == SetsUpTo(U, k - 1)
       IN smaller \cup {s \cup {e} : s \in smaller, e \in U}

\* The sequences of at most n elements of S.
SeqsUpTo(S, n) == UNION {[1..k -> S] : k \in 0..n}

RECURSIVE SortedNames(_)
\* sorted(d) for a set d of names.
SortedNames(d) ==
  IF d = {} THEN <<>>
  ELSE LET m == CHOOSE n \in d : \A o \in d : NameRank[n] <= NameRank[o]
       IN <<m>> \o SortedNames(d \ {m})

(***************************************************************************)
(* The declared objects of the features: actions with their order, their   *)
(* event bindings and their disabled flag; phases, commands, binaries and  *)
(* services.                                                               *)
(***************************************************************************)
Actions == {"a1", "b1", "b2", "c1", "c2", "dup"}

\* The actions each feature's `actions` property returns, in its order.
FeatureActions == [a |-> <<"a1">>, b |-> <<"b1", "b2">>, c |-> <<"c1", "c2">>]

\* Action.order: lower runs first.
ActionOrder == [a1 |-> 5, b1 |-> 10, b2 |-> 5, c1 |-> 5, c2 |-> 5, dup |-> 5]

\* Action.event_bindings in its three shapes: one event name (a str), a
\* sequence of event names, a sequence of (event name, method name) pairs.
EventBindings ==
  [a1 |-> [shape |-> "str", event |-> "phase:x"],
   b1 |-> [shape |-> "list", items |-> <<[event |-> "phase:x", method |-> ""],
                                         [event |-> "phase:y", method |-> ""]>>],
   b2 |-> [shape |-> "list", items |-> <<[event |-> "phase:x", method |-> ""]>>],
   c1 |-> [shape |-> "list", items |-> <<[event |-> "file:found", method |-> "render"]>>],
   c2 |-> [shape |-> "list", items |-> <<[event |-> "file:found", method |-> ""]>>],
   dup |-> [shape |-> "str", event |-> "phase:y"]]

Events == {"phase:x", "phase:y", "file:found"}

\* The action whose execute walks the project and emits an event per file
\* found, and that event.
WalkAction == "b2"
WalkEvent == "file:found"

\* The shell an activation action is for; "" for the other actions, whose
\* `disabled` is the default of Action (false).
Shells == {"bash", "cmd"}
ActionShell == [a1 |-> "", b1 |-> "", b2 |-> "", c1 |-> "bash", c2 |-> "", dup |-> ""]
ShellFeature == "c"
DefaultShell == "bash"

\* ActivateAction.disabled: config.data.get('shell.shell') != self.shell.name
ActionDisabled(action, shell_value) ==
  IF ActionShell[action] = "" THEN FALSE ELSE shell_value # ActionShell[action]

FeaturePhases == [a |-> <<"x", "y">>, b |-> <<>>, c |-> <<>>]
FeatureCommands == [a |-> <<"cmd", "one">>, b |-> <<>>, c |-> <<>>]
FeatureBinaries == [a |-> <<>>, b |-> <<"bin_b">>, c |-> <<>>]
FeatureServices == [a |-> <<>>, b |-> <<>>, c |-> <<"svc_c">>]

\* The ordered phases of a command, as event names.
CommandPhases == [cmd |-> <<"phase:x", "phase:y">>, one |-> <<"phase:y">>]

\* The name of the object that two features both contribute when the
\* configuration makes their names clash (input `clash`), and the features.
ClashName == "dup"
ClashFeatures == {"b", "c"}

\* The caches register_default_caches registers, in its order.
DefaultCaches == <<"project", "global", "requests", "project_binary">>

\* The action whose method stores what it computes in the global cache.
CachingAction == "c2"
CachingCache == "global"

\* The feature whose configure derives an ip address (DockerFeature).
DockerFeature == "b"

\* DOCKER_HOST: not set, set without an IPv4 address (a socket), set with one.
DockerHosts == {"", "unix", "tcp"}

\* The configured network interface: unknown to the system (ifaddresses
\* raises ValueError), known without an IPv4 address, known with one.
Interfaces == {"invalid", "no_ipv4", "ipv4"}

\* The ip addresses: none, the configured one, the one of DOCKER_HOST, the
\* one of the network interface.
NoIp == ""
ConfiguredIp == "ip:configured"
HostIp == "ip:docker_host"
InterfaceIp == "ip:interface"

\* config.data['docker'] before config.load.
NoDockerConfig == [ip |-> NoIp, resolved |-> FALSE]

\* The lifecycle steps of a feature that run the feature's own code.
Hooks == {"before_load", "configure", "after_load"}
NoHook == [step |-> "", feature |-> ""]

NoError == [type |-> "", who |-> "", what |-> ""]

\* Where a feature instance comes from: 0 for the default features, i for the
\* i-th feature the entry points load.
BuiltIn == 0

VARIABLES
  default_features,      \* input: the features register_features is given, in order
  entry_points,          \* input: the names of the features the entry points load, in order
  feat_dependencies,     \* input: Feature.dependencies of each feature, as tokens
  cfg_dependencies,      \* input: config.data['dependencies']
  cfg_disabled,          \* input: the features configured as disabled
  cfg_shell,             \* input: the configured shell.shell, "" when not given
  fixuid_services,       \* input: the generated files that are the Dockerfile of a
                         \* fixuid service
  docker_env,            \* input: the configured docker.ip, DOCKER_HOST and the state of
                         \* the configured network interface
  fail_fast,             \* input: the policy given to register_actions_in_event_bus
  faulty,                \* input: the actions whose methods may raise
  files,                 \* input: the number of files the walk finds
  args_flags,            \* input: the flags verbose, very_verbose and silent of the
                         \* command line
  args_command,          \* input: the command named on the command line, "" if none
  failing_hook,          \* input: the lifecycle step of a feature that raises, NoHook if none
  clash,                 \* input: the kind of object two features name alike, "" if none
  restarting,            \* input: whether the command may raise RestartWithArgs
  caller_resets,         \* input: the number of reset() calls the caller of main makes
  pc,                    \* where main is
  idx,                   \* the index of the running loop over features
  required_dependencies, \* register_features: local
  toposort_data,         \* register_features: local
  sorted_feature_names,  \* register_features: local
  features,              \* the feature registry, in registration order
  feature_origin,        \* where the instance registered under each name comes from
  disabled,              \* Feature.disabled of each feature
  config_shell,          \* config.data['shell.shell']
  log_level,             \* the level of the context logger, "" until it is configured
  config_docker,         \* config.data['docker']: its ip and whether configure has
                         \* written the resolved configuration
  enabled_features,      \* load_registered_features: local
  registry,              \* the phase, command, action, binary and service registries
  bus,                   \* the handlers bound to each event, in binding order
  phase_idx,             \* execute_command: the number of phases fired
  stack,                 \* the emissions in progress, outermost first
  exceptions,            \* context.exceptions
  error,                 \* the exception propagating out of main, if any
  exit_code,             \* the exit status of the process, -1 while it runs
  caches,                \* the cache registry, in registration order
  cache_data,            \* the caches whose store holds entries
  config_args,           \* config.args: "" (not set), "parsed" or "restart"
  config_unknown_args,   \* config.unknown_args, NoneValue while it is not set
  attempt,               \* handle_command_line: 1 in the try of line 221, 2 after line 224
  round,                 \* the number of reset() calls made so far
  prev,                  \* history: the registries and the bus when reset() was last called
  cache_calls,           \* history: the calls reset() has last made on caches, in order
  executions,            \* history: the executions of the command a restart has ended
  log,                   \* the error lines logged since main was called
  trace,                 \* history: what main has invoked since it was called, the
                         \* executions a restart has ended left out
  unit,                  \* the function called on its own and where the call is, "" if none
  environ,               \* os.environ: the variables that are set, with their values
  raw_feature_config,    \* sanitize_and_validate: the feature's configuration as dumped
  feature_config,        \* sanitize_and_validate: the configuration after the overrides
  docker_compose_config, \* FixuidDockerComposeAction.docker_compose_config
  fixuid_yml,            \* the directories that hold a file fixuid.yml
  dockerfile_stat,       \* os.stat of the Dockerfiles and archives
  stat_before,           \* history: os.stat of the files when execute was called
  raising,               \* input: the step of _apply_fixuid_from_parser that raises, "" if none
  applying,              \* the calls of apply_fixuid in progress, outermost first
  remaining,             \* execute: the services the loop has not reached yet
  fixuid_log,            \* history: what the fixuid action has done
  fixuid_error,          \* the exception execute has raised, "" if none
  shell_environ,         \* os.environ of the process that activates or deactivates
  shell_initial,         \* history: the environment before the activation
  shell_commands,        \* the commands the action has given to the shell
  path_directories,      \* input: the directories of shell.path.directories
  path_prepend,          \* input: shell.path.prepend
  changes                \* the number of changes the user has made since the activation

inputs == <<default_features, entry_points, feat_dependencies, cfg_dependencies, cfg_disabled, cfg_shell,
            docker_env, fixuid_services, args_flags,
            fail_fast, faulty, files, args_command, failing_hook, clash, restarting,
            caller_resets>>
resolver == <<required_dependencies, toposort_data, sorted_feature_names, features,
              feature_origin>>
lifecycle == <<idx, disabled, config_shell, enabled_features>>
registries == <<registry>>
execution == <<bus, phase_idx, stack, exceptions>>
store == <<caches, cache_data>>
harness == <<round, prev, cache_calls>>
settings == <<config_docker>>
logging == <<log_level>>
session == <<config_args, config_unknown_args, attempt, executions, log>>
overriding == <<environ, raw_feature_config, feature_config>>
\* The state of the functions that are called on their own.
fixuid == <<docker_compose_config, fixuid_yml, dockerfile_stat, stat_before, raising, applying, remaining,
            fixuid_log, fixuid_error>>
shell == <<shell_environ, shell_initial, shell_commands, path_directories, path_prepend, changes>>
units == <<unit, overriding, fixuid, shell>>
\* The state of main.
program == <<inputs, pc, resolver, lifecycle, registries, execution, error, exit_code,
             store, harness, settings, logging, session, trace>>
vars == <<program, units>>

\* An entry of the history.
Did(op, name, event) == [op |-> op, name |-> name, event |-> event]

(***************************************************************************)
(* register_features                                                       *)
(***************************************************************************)
RECURSIVE MergedKeys(_, _)
\* The keys of a dict after one assignment per name, in insertion order: a
\* name assigned again keeps its place.
MergedKeys(keys, names) ==
  IF names = <<>> THEN keys
  ELSE MergedKeys(IF Head(names) \in Range(keys) THEN keys ELSE Append(keys, Head(names)),
                  Tail(names))

\* entrypoint_features, lines 73-76: the names of the merged feature mapping,
\* in the mapping's order.
EntrypointFeatures == MergedKeys(<<>>, default_features \o entry_points)

\* Mutant: an entry point does not replace the feature its name already has.
EntrypointOriginFirst(name) == BuiltIn

\* entrypoint_features[name], lines 73-76: the instance of the last assignment
\* to the name, the last entry point that loads it if there is one.
EntrypointOrigin(name) ==
  LET loads == {i \in 1..Len(entry_points) : entry_points[i] = name}
  IN IF loads = {} THEN BuiltIn ELSE CHOOSE i \in loads : \A j \in loads : j <= i

\* The instances registered under the names of a registry.
OriginsOf(reg) == [n \in Range(reg) |-> EntrypointOrigin(n)]

\* dependency_item.endswith('[optional]')
IsOptional(token) == token.suffix = OptionalSuffix

\* dependency_item[0:len(dependency_item) - len('[optional]')], or the item
\* itself when it has no suffix.
DependencyName(token) == token.base

\* Mutant: the suffix test inverted, the optional dependencies taken as required.
PrepareRequiredInverted(deps) ==
  [name \in Range(EntrypointFeatures) |->
     {DependencyName(t) : t \in {u \in deps[name] : IsOptional(u)}}]

\* Mutant: the optional dependencies left out of the data to sort.
PrepareToposortDataRequiredOnly(deps) ==
  [name \in Range(EntrypointFeatures) |->
     {DependencyName(t) : t \in {u \in deps[name] : ~IsOptional(u)}}]

\* Mutant: every dependency taken as required, the suffix cut off.
PrepareRequiredAll(deps) ==
  [name \in Range(EntrypointFeatures) |-> {DependencyName(t) : t \in deps[name]}]

\* Mutant: the configured dependencies merged before the check, as required.
PrepareRequiredWithOverrides(deps) ==
  [name \in Range(EntrypointFeatures) |->
     {DependencyName(t) : t \in {u \in deps[name] : ~IsOptional(u)}}
     \cup {e.dep : e \in {o \in cfg_dependencies : o.feat = name /\ o.dep # ""}}]

\* _prepare_dependencies_data: required_dependencies and toposort_data.
PrepareRequired(deps) ==
  [name \in Range(EntrypointFeatures) |->
     {DependencyName(t) : t \in {u \in deps[name] : ~IsOptional(u)}}]

PrepareToposortData(deps) ==
  [name \in Range(EntrypointFeatures) |-> {DependencyName(t) : t \in deps[name]}]

\* _check_missing_dependencies: the (feature, dependency) pairs the check can
\* raise for: the first feature of the mapping with a required dependency that
\* is not a key of the mapping, and any of its missing dependencies.
MissingOf(required, name) == {d \in required[name] : d \notin Range(EntrypointFeatures)}

MissingDependencies(required) ==
  LET bad == {i \in 1..Len(EntrypointFeatures) :
                MissingOf(required, EntrypointFeatures[i]) # {}}
  IN IF bad = {} THEN {}
     ELSE LET first == CHOOSE i \in bad : \A j \in bad : i <= j
          IN {[who |-> EntrypointFeatures[first], what |-> d] :
                d \in MissingOf(required, EntrypointFeatures[first])}

\* Mutant: the keys of the configured map added, their dependencies dropped.
MergeDependenciesKeysOnly(data, overrides) ==
  LET keys == {e.feat : e \in overrides}
  IN [n \in DOMAIN data \cup keys |-> IF n \in DOMAIN data THEN data[n] ELSE {}]

\* Lines 81-87: the configured dependencies merged into toposort_data.
MergeDependencies(data, overrides) ==
  LET keys == {e.feat : e \in overrides}
      added(n) == {e.dep : e \in {o \in overrides : o.feat = n /\ o.dep # ""}}
  IN [n \in DOMAIN data \cup keys |->
        (IF n \in DOMAIN data THEN data[n] ELSE {}) \cup added(n)]

RECURSIVE ToposortLevels(_)
\* toposort's loop: the items with no dependency left form the next level and
\* are removed; what remains when no such item exists is a cycle.
ToposortLevels(data) ==
  LET ordered == {n \in DOMAIN data : data[n] = {}}
  IN IF ordered = {} THEN [levels |-> <<>>, rest |-> DOMAIN data]
     ELSE LET r == ToposortLevels([n \in DOMAIN data \ ordered |-> data[n] \ ordered])
          IN [levels |-> <<ordered>> \o r.levels, rest |-> r.rest]

RECURSIVE FlattenAsDiscovered(_)
\* Mutant: sort=False, the names of a level left in the order of the mapping.
FlattenAsDiscovered(levels) ==
  IF levels = <<>> THEN <<>>
  ELSE SelectSeq(EntrypointFeatures \o <<Absent>>, LAMBDA n : n \in Head(levels))
         \o FlattenAsDiscovered(Tail(levels))

RECURSIVE Flatten(_)
\* The levels one after the other, the names of a level sorted.
Flatten(levels) ==
  IF levels = <<>> THEN <<>> ELSE SortedNames(Head(levels)) \o Flatten(Tail(levels))

\* toposort_flatten(data, sort=True): self-dependencies are discarded, names
\* met only as dependencies become items without dependencies, and a cycle
\* raises CircularDependencyError (a ValueError).
ToposortFlatten(data) ==
  LET items == DOMAIN data \cup UNION {data[n] : n \in DOMAIN data}
      clean == [n \in items |-> IF n \in DOMAIN data THEN data[n] \ {n} ELSE {}]
      r == ToposortLevels(clean)
  IN [ok |-> r.rest = {}, result |-> Flatten(r.levels)]

\* Registry.register: a name already registered is refused.
CanRegister(reg, name) == name \notin Range(reg)

\* Mutant: every object stored, whatever the registry holds.
RegisterAllUnchecked(reg, names) ==
  [registry |-> reg \o names, ok |-> TRUE, name |-> ""]

RECURSIVE RegisterAll(_, _)
\* registry.register(obj) for each object in turn, stopping at the first one
\* refused: the registry reached and whether every object was registered.
RegisterAll(reg, names) ==
  IF names = <<>> THEN [registry |-> reg, ok |-> TRUE, name |-> ""]
  ELSE IF ~CanRegister(reg, Head(names))
       THEN [registry |-> reg, ok |-> FALSE, name |-> Head(names)]
       ELSE RegisterAll(Append(reg, Head(names)), Tail(names))

\* Mutant: the test of line 92 left out.
FeaturesToRegisterAll(sorted) == sorted

\* Lines 90-93: the sorted names that have a feature instance.
FeaturesToRegister(sorted) ==
  SelectSeq(sorted, LAMBDA n : n \in Range(EntrypointFeatures))

\* Config.load, line 81 of config.py: the loaded data is merged into the data
\* the configuration holds.
MergedShell(current, loaded) == IF loaded # "" THEN loaded ELSE current

\* Lines 262-263 of main: config.load() and register_default_caches().
MainStart ==
  /\ pc = "main"
  /\ config_shell' = MergedShell(config_shell, cfg_shell)
  /\ config_docker' = [config_docker EXCEPT !.ip = MergedShell(@, docker_env.ip)]
  /\ LET r == RegisterAll(caches, DefaultCaches)
     IN /\ caches' = r.registry
        /\ IF r.ok
           THEN pc' = "register_features" /\ error' = error
           ELSE pc' = "raised"
                /\ error' = [type |-> "DuplicateNameError", who |-> "caches", what |-> r.name]
  /\ UNCHANGED <<inputs, units, resolver, idx, disabled, enabled_features, registries,
                 execution, exit_code, cache_data, harness, logging, session, trace>>

\* Lines 78-79.
PrepareDependencies ==
  /\ pc = "register_features"
  /\ LET required == PrepareRequired(feat_dependencies)
         missing == MissingDependencies(required)
     IN /\ required_dependencies' = required
        /\ toposort_data' = PrepareToposortData(feat_dependencies)
        /\ IF missing = {}
           THEN /\ pc' = "toposort"
                /\ error' = error
           ELSE /\ pc' = "raised"
                /\ \E m \in missing :
                     error' = [type |-> "ValueError", who |-> m.who, what |-> m.what]
  /\ trace' = Append(trace, Did("check_missing", "", ""))
  /\ UNCHANGED <<inputs, units, store, harness, settings, logging, session, sorted_feature_names, features,
                 feature_origin, lifecycle, registries, execution, exit_code>>

\* Lines 81-89.
Toposort ==
  /\ pc = "toposort"
  /\ LET merged == MergeDependencies(toposort_data, cfg_dependencies)
         sorted == ToposortFlatten(merged)
     IN /\ toposort_data' = merged
        /\ IF sorted.ok
           THEN /\ sorted_feature_names' = sorted.result
                /\ pc' = "register"
                /\ error' = error
           ELSE /\ sorted_feature_names' = sorted_feature_names
                /\ pc' = "raised"
                /\ error' = [type |-> "ValueError", who |-> "toposort", what |-> "cycle"]
  /\ trace' = Append(trace, Did("toposort", "", ""))
  /\ UNCHANGED <<inputs, units, store, harness, settings, logging, session, required_dependencies, features,
                 feature_origin, lifecycle, registries, execution, exit_code>>

\* Lines 90-93.
RegisterSortedFeatures ==
  /\ pc = "register"
  /\ LET r == RegisterAll(features, FeaturesToRegister(sorted_feature_names))
     IN /\ features' = r.registry
        /\ feature_origin' = OriginsOf(r.registry)
        /\ IF r.ok
           THEN pc' = "before_load" /\ error' = error
           ELSE pc' = "raised"
                /\ error' = [type |-> "DuplicateNameError", who |-> "features", what |-> r.name]
  /\ idx' = 1
  /\ trace' = Append(trace, Did("register", "", ""))
  /\ UNCHANGED <<inputs, units, store, harness, settings, logging, session, required_dependencies, toposort_data, sorted_feature_names,
                 disabled, config_shell, enabled_features, registries, execution,
                 exit_code>>

(***************************************************************************)
(* load_registered_features                                                *)
(***************************************************************************)
\* The registries load_registered_features fills, in the order it fills them.
HarvestKinds == <<"phases", "commands", "actions", "binaries", "services">>

\* The hook of a feature raises (as DockerFeature._configure_defaults_ip does
\* for a network interface it cannot use).
HookRaises(step, feature) == failing_hook = [step |-> step, feature |-> feature]

HookError(step, feature) == [type |-> "HookError", who |-> feature, what |-> step]

\* Mutant: the lifecycle run feature by feature, configure right after
\* before_load.
BeforeLoadDepthFirst ==
  /\ pc = "before_load"
  /\ idx <= Len(features)
  /\ idx' = idx + 1
  /\ trace' = trace \o <<Did("before_load", features[idx], ""),
                         Did("configure", features[idx], "")>>
  /\ UNCHANGED <<inputs, units, store, harness, settings, logging, session, pc, resolver, disabled, config_shell, enabled_features,
                 registries, execution, error, exit_code>>

\* Mutant: before_load kept for the features that are not configured as
\* disabled.
BeforeLoadUnlessDisabled ==
  /\ pc = "before_load"
  /\ idx <= Len(features)
  /\ trace' = IF features[idx] \in cfg_disabled THEN trace
               ELSE Append(trace, Did("before_load", features[idx], ""))
  /\ IF HookRaises("before_load", features[idx])
     THEN pc' = "raised" /\ idx' = idx /\ error' = HookError("before_load", features[idx])
     ELSE pc' = pc /\ idx' = idx + 1 /\ error' = error
  /\ UNCHANGED <<inputs, units, store, harness, settings, logging, session, resolver, disabled, config_shell,
                 enabled_features, registries, execution, exit_code>>

\* Line 165 and lines 167-168: before_load of the next feature; what the hook
\* raises leaves the loop, load_registered_features and main.
BeforeLoad ==
  /\ pc = "before_load"
  /\ idx <= Len(features)
  /\ trace' = Append(trace, Did("before_load", features[idx], ""))
  /\ IF HookRaises("before_load", features[idx])
     THEN pc' = "raised" /\ idx' = idx /\ error' = HookError("before_load", features[idx])
     ELSE pc' = pc /\ idx' = idx + 1 /\ error' = error
  /\ UNCHANGED <<inputs, units, store, harness, settings, logging, session, resolver, disabled, config_shell,
                 enabled_features, registries, execution, exit_code>>

BeforeLoadDone ==
  /\ pc = "before_load"
  /\ idx > Len(features)
  /\ pc' = "configure"
  /\ idx' = 1
  /\ UNCHANGED <<inputs, units, store, harness, settings, logging, session, resolver, disabled, config_shell, enabled_features,
                 registries, execution, error, exit_code, trace>>

\* Feature.configure: the feature's configuration is resolved, its disabled
\* flag with it, and written to config.data.
ConfiguredShell(feature, current) ==
  IF feature # ShellFeature THEN current
  ELSE IF cfg_shell = "" THEN DefaultShell ELSE cfg_shell

\* Mutant: a loopback address taken when no ip address can be derived.
ConfigureDefaultsIpFallback(ip, env) ==
  [ok |-> TRUE,
   ip |-> IF ip # NoIp THEN ip
          ELSE IF env.host = "tcp" THEN HostIp
          ELSE IF env.interface = "ipv4" THEN InterfaceIp ELSE "ip:loopback",
   what |-> ""]

\* DockerFeature._configure_defaults_ip for the ip of the feature's
\* configuration: the configured ip, else the IPv4 address of DOCKER_HOST, else
\* the IPv4 address of the configured network interface; with none of them
\* FeatureConfigurationAutoConfigureError is raised.
ConfigureDefaultsIp(ip, env) ==
  LET ip_address == IF ip # NoIp THEN ip
                    ELSE IF env.host = "tcp" THEN HostIp ELSE NoIp
  IN IF ip_address # NoIp THEN [ok |-> TRUE, ip |-> ip_address, what |-> ""]
     ELSE IF env.interface = "invalid"
          THEN [ok |-> FALSE, ip |-> NoIp, what |-> "Invalid network interface"]
     ELSE IF env.interface = "ipv4"
          THEN [ok |-> TRUE, ip |-> InterfaceIp, what |-> ""]
     ELSE [ok |-> FALSE, ip |-> NoIp, what |-> "Can't get ip address"]

\* The auto_configure of sanitize_and_validate (line 152 of config.py) for
\* a feature: the defaults of the docker feature, nothing to derive for the
\* other features.
AutoConfigure(feature) ==
  IF feature = DockerFeature THEN ConfigureDefaultsIp(config_docker.ip, docker_env)
  ELSE [ok |-> TRUE, ip |-> NoIp, what |-> ""]

AutoConfigureError(feature, what) ==
  [type |-> "FeatureConfigurationAutoConfigureError", who |-> feature, what |-> what]

\* Line 155 of config.py: self.data[key] = feature_config.
ConfiguredDocker(feature, current) ==
  IF feature # DockerFeature THEN current
  ELSE [ip |-> AutoConfigure(feature).ip, resolved |-> TRUE]

\* Mutant: what configure raises is caught and the feature left as it is.
ConfigureIgnoringErrors ==
  /\ pc = "configure"
  /\ idx <= Len(features)
  /\ trace' = Append(trace, Did("configure", features[idx], ""))
  /\ IF HookRaises("configure", features[idx]) \/ ~AutoConfigure(features[idx]).ok
     THEN UNCHANGED <<disabled, config_shell, config_docker>>
     ELSE /\ disabled' = [disabled EXCEPT ![features[idx]] = features[idx] \in cfg_disabled]
          /\ config_shell' = ConfiguredShell(features[idx], config_shell)
          /\ config_docker' = ConfiguredDocker(features[idx], config_docker)
  /\ idx' = idx + 1
  /\ UNCHANGED <<inputs, units, store, harness, logging, session, pc, resolver, enabled_features,
                 registries, execution, error, exit_code>>

\* Lines 170-171: configure of the next feature. What it raises (line 146 of
\* config.py, before line 149 writes the feature's configuration) leaves main.
Configure ==
  /\ pc = "configure"
  /\ idx <= Len(features)
  /\ trace' = Append(trace, Did("configure", features[idx], ""))
  /\ IF HookRaises("configure", features[idx])
     THEN /\ pc' = "raised" /\ idx' = idx
          /\ error' = HookError("configure", features[idx])
          /\ UNCHANGED <<disabled, config_shell, config_docker>>
     ELSE IF ~AutoConfigure(features[idx]).ok
     THEN /\ pc' = "raised" /\ idx' = idx
          /\ error' = AutoConfigureError(features[idx], AutoConfigure(features[idx]).what)
          /\ UNCHANGED <<disabled, config_shell, config_docker>>
     ELSE /\ pc' = pc /\ idx' = idx + 1 /\ error' = error
          /\ disabled' = [disabled EXCEPT ![features[idx]] = features[idx] \in cfg_disabled]
          /\ config_shell' = ConfiguredShell(features[idx], config_shell)
          /\ config_docker' = ConfiguredDocker(features[idx], config_docker)
  /\ UNCHANGED <<inputs, units, store, harness, logging, session, resolver, enabled_features,
                 registries, execution, exit_code>>

\* Mutant: the disabled features kept.
EnabledFeaturesAll(all_features) == all_features

\* Line 173.
EnabledFeatures(all_features) == SelectSeq(all_features, LAMBDA f : ~disabled[f])

ConfigureDone ==
  /\ pc = "configure"
  /\ idx > Len(features)
  /\ enabled_features' = EnabledFeatures(features)
  /\ pc' = "harvest"
  /\ idx' = 1
  /\ UNCHANGED <<inputs, units, store, harness, settings, logging, session, resolver, disabled, config_shell, registries, execution,
                 error, exit_code, trace>>

\* What a feature declares of a kind: its own objects and, when the names of
\* two features clash for that kind, the object both name alike.
Declared(kind, feature) ==
  (CASE kind = "phases" -> FeaturePhases[feature]
     [] kind = "commands" -> FeatureCommands[feature]
     [] kind = "actions" -> FeatureActions[feature]
     [] kind = "binaries" -> FeatureBinaries[feature]
     [] kind = "services" -> FeatureServices[feature])
  \o (IF clash = kind /\ feature \in ClashFeatures THEN <<ClashName>> ELSE <<>>)

\* The objects_getter of each register_objects call of lines 175-179.
ObjectsOf(kind, feature) ==
  IF kind = "actions"
  THEN SelectSeq(Declared(kind, feature), LAMBDA a : ~ActionDisabled(a, config_shell))
  ELSE Declared(kind, feature)

RECURSIVE AllObjects(_, _)
\* register_objects, lines 151-155: the objects of the features, in the order
\* of the features.
AllObjects(kind, features_list) ==
  IF features_list = <<>> THEN <<>>
  ELSE ObjectsOf(kind, Head(features_list)) \o AllObjects(kind, Tail(features_list))

\* register_objects: lines 157-158 on the objects collected.
RegisterObjects(kind, features_list) ==
  RegisterAll(registry[kind], AllObjects(kind, features_list))

\* Lines 175-179: one register_objects call.
Harvest ==
  /\ pc = "harvest"
  /\ idx <= Len(HarvestKinds)
  /\ LET kind == HarvestKinds[idx]
         r == RegisterObjects(kind, enabled_features)
     IN /\ registry' = [registry EXCEPT ![kind] = r.registry]
        /\ trace' = Append(trace, Did("harvest", kind, ""))
        /\ IF ~r.ok
           THEN /\ pc' = "raised"
                /\ error' = [type |-> "DuplicateNameError", who |-> kind, what |-> r.name]
                /\ idx' = idx
           ELSE /\ error' = error
                /\ IF idx = Len(HarvestKinds)
                   THEN pc' = "after_load" /\ idx' = 1
                   ELSE pc' = pc /\ idx' = idx + 1
  /\ UNCHANGED <<inputs, units, store, harness, settings, logging, session, resolver, disabled, config_shell, enabled_features,
                 execution, exit_code>>

\* Lines 181-182: after_load of the next enabled feature.
AfterLoad ==
  /\ pc = "after_load"
  /\ idx <= Len(enabled_features)
  /\ trace' = Append(trace, Did("after_load", enabled_features[idx], ""))
  /\ IF HookRaises("after_load", enabled_features[idx])
     THEN pc' = "raised" /\ idx' = idx
          /\ error' = HookError("after_load", enabled_features[idx])
     ELSE pc' = pc /\ idx' = idx + 1 /\ error' = error
  /\ UNCHANGED <<inputs, units, store, harness, settings, logging, session, resolver, disabled, config_shell,
                 enabled_features, registries, execution, exit_code>>

AfterLoadDone ==
  /\ pc = "after_load"
  /\ idx > Len(enabled_features)
  /\ pc' = "bind"
  /\ UNCHANGED <<inputs, units, store, harness, settings, logging, session, resolver, lifecycle, registries, execution, error,
                 exit_code, trace>>

(***************************************************************************)
(* register_actions_in_event_bus                                           *)
(***************************************************************************)
\* Mutant: the order of the actions not looked at.
SortKeyConstant(action) == 0

\* The key of sorted(actions.all(), key=lambda x: x.order).
SortKey(action) == ActionOrder[action]

\* One step of a stable sort: the action goes after the actions whose key is
\* not greater than its own.
InsertSorted(sorted, action) ==
  LET k == Cardinality({i \in 1..Len(sorted) : SortKey(sorted[i]) <= SortKey(action)})
  IN SubSeq(sorted, 1, k) \o <<action>> \o SubSeq(sorted, k + 1, Len(sorted))

RECURSIVE SortedActions(_)
\* Line 234: sorted() is stable.
SortedActions(all) ==
  IF all = <<>> THEN <<>>
  ELSE InsertSorted(SortedActions(SubSeq(all, 1, Len(all) - 1)), all[Len(all)])

\* action_event_binding_runner_factory: the runner of a binding holds the
\* action, the event, the method it calls (execute unless the binding names
\* one) and the fail_fast policy.
Runner(action, event, method, policy) ==
  [action |-> action, event |-> event,
   method |-> IF method = "" THEN "execute" ELSE method,
   fail_fast |-> policy]

\* Mutant: the runner of an (event, method) binding always made fail-fast.
RunnersOfPairFailFast(action, policy) ==
  LET eb == EventBindings[action]
  IN IF eb.shape = "str"
     THEN <<Runner(action, eb.event, "", policy)>>
     ELSE [i \in 1..Len(eb.items) |->
             Runner(action, eb.items[i].event, eb.items[i].method,
                    IF eb.items[i].method = "" THEN policy ELSE TRUE)]

\* Mutant: fail_fast not handed to the runner of a str binding, which keeps
\* the default (false).
RunnersOfStrDefault(action, policy) ==
  LET eb == EventBindings[action]
  IN IF eb.shape = "str"
     THEN <<Runner(action, eb.event, "", FALSE)>>
     ELSE [i \in 1..Len(eb.items) |->
             Runner(action, eb.items[i].event, eb.items[i].method, policy)]

\* Mutant: a str binding bound by both branches, as a str and as a sequence.
RunnersForStrTwice(action, eb, policy) ==
  IF eb.shape = "str"
  THEN <<Runner(action, eb.event, "", policy), Runner(action, eb.event, "", policy)>>
  ELSE [i \in 1..Len(eb.items) |->
          Runner(action, eb.items[i].event, eb.items[i].method, policy)]

\* Mutant: the method name of an (event, method) binding not handed to the
\* runner, which calls execute.
RunnersForMethodDropped(action, eb, policy) ==
  IF eb.shape = "str"
  THEN <<Runner(action, eb.event, "", policy)>>
  ELSE [i \in 1..Len(eb.items) |-> Runner(action, eb.items[i].event, "", policy)]

\* Lines 237-255 for the event_bindings eb of an action: one runner per binding.
RunnersFor(action, eb, policy) ==
  IF eb.shape = "str"
  THEN <<Runner(action, eb.event, "", policy)>>
  ELSE [i \in 1..Len(eb.items) |->
          Runner(action, eb.items[i].event, eb.items[i].method, policy)]

\* Lines 237-255: the runners of an action, one per binding.
RunnersOf(action, policy) == RunnersFor(action, EventBindings[action], policy)

RECURSIVE AllRunners(_, _)
AllRunners(sorted, policy) ==
  IF sorted = <<>> THEN <<>>
  ELSE RunnersOf(Head(sorted), policy) \o AllRunners(Tail(sorted), policy)

RECURSIVE BusOn(_, _)
\* bus.on(event_name, runner.run) for each runner in turn: the handler is
\* appended to the handlers of its event.
BusOn(b, runners) ==
  IF runners = <<>> THEN b
  ELSE BusOn([b EXCEPT ![Head(runners).event] = Append(@, Head(runners))], Tail(runners))

RegisterActionsInEventBus ==
  /\ pc = "bind"
  /\ bus' = BusOn(bus, AllRunners(SortedActions(registry["actions"]), fail_fast))
  /\ pc' = "command_line"
  /\ trace' = Append(trace, Did("bind", "", ""))
  /\ UNCHANGED <<inputs, units, store, harness, settings, logging, session, resolver, lifecycle, registries, phase_idx, stack,
                 exceptions, error, exit_code>>

(***************************************************************************)
(* handle_command_line, execute_command and the event bus                  *)
(***************************************************************************)
\* An emission in progress: the event and its arguments, the index of the
\* handler reached, whether that handler is running, the number of events it
\* has emitted, and the values the handlers have returned so far.
Frame(event, args) ==
  [event |-> event, args |-> args, i |-> 0, running |-> FALSE, emitted |-> 0,
   results |-> <<>>]

Top == stack[Len(stack)]

SetTop(frame) == [stack EXCEPT ![Len(stack)] = frame]

\* The handler a frame has reached.
HandlerOf(frame) == bus[frame.event][frame.i]

\* The invocation path of the running handler, outermost first.
InvocationPath == [k \in 1..Len(stack) |-> HandlerOf(stack[k])]

NoneValue == <<>>

\* The action whose binding of the event of the generated files carries a
\* processor (FixuidDockerComposeAction), and the processor of a binding, ""
\* for a binding without one.
ProcessedAction == "c1"

Processor(action, event) ==
  IF action = ProcessedAction /\ event = WalkEvent THEN "file_generated_processor"
  ELSE ""

\* Mutant: a service found for every file.
FindFixuidServiceAny(filepath) == <<"service", filepath>>

\* find_fixuid_service: the fixuid service whose Dockerfile the file is, None
\* when there is none.
FindFixuidService(filepath) ==
  IF filepath \in fixuid_services THEN <<"service", filepath>> ELSE NoneValue

\* file_generated_processor of event_bindings: no positional argument and the
\* service as keyword argument, None for a file of no service.
FileGeneratedProcessor(source, target) ==
  LET service == FindFixuidService(target)
  IN IF service # NoneValue THEN [args |-> <<>>, kwargs |-> service] ELSE NoneValue

\* The runner of a binding: without a processor the method is invoked with
\* the arguments of the event; with one the processor gets the arguments of
\* the event, and the method is invoked with what the processor returns, and
\* not invoked when it returns None.
RunnerCall(handler, args) ==
  IF Processor(handler.action, handler.event) = ""
  THEN [invoked |-> TRUE, args |-> args]
  ELSE LET processed == FileGeneratedProcessor(NoneValue, args)
       IN [invoked |-> processed # NoneValue, args |-> processed]

\* What a handler returns to bus.emit: the value of the method it calls, and
\* None when the runner has recorded what the method raised or has not
\* invoked the method.
ReturnValue(handler, args) ==
  IF RunnerCall(handler, args).invoked
  THEN <<handler.action, handler.method, RunnerCall(handler, args).args>>
  ELSE NoneValue

\* The entries of the history for an emission, a call and the end of an
\* emission.
DidEmit(emitter, event, args) ==
  [op |-> "emit", name |-> emitter, event |-> event, args |-> args]

DidCall(handler, args) ==
  [op |-> "call", name |-> handler.action, event |-> handler.event,
   method |-> handler.method, args |-> args, passed |-> RunnerCall(handler, args)]

DidEmitted(frame) ==
  [op |-> "emitted", name |-> "", event |-> frame.event, args |-> frame.args,
   results |-> frame.results]

\* Mutant: silent looked at first.
LogLevelSilentFirst(flags) ==
  IF flags.silent THEN "CRITICAL"
  ELSE IF flags.very_verbose THEN "DEBUG"
  ELSE IF flags.verbose THEN "VERBOSE"
  ELSE "INFO"

\* Lines 207-213: the level of the flags of the command line.
LogLevel(flags) ==
  IF flags.very_verbose THEN "DEBUG"
  ELSE IF flags.verbose THEN "VERBOSE"
  ELSE IF flags.silent THEN "CRITICAL"
  ELSE "INFO"

\* Line 205: the arguments of the command line that no parser knows.
UnknownArgs == <<"--unknown">>

\* Lines 191-220 and 226-227: the arguments are parsed; with no command the help
\* is printed, a command that no parser knows ends the process (argparse).
HandleCommandLine ==
  /\ pc = "command_line"
  /\ IF args_command = ""
     THEN /\ pc' = "returned" /\ error' = error /\ config_args' = config_args
          /\ config_unknown_args' = config_unknown_args
          /\ log_level' = LogLevel(args_flags)
     ELSE IF args_command \notin Range(registry["commands"])
          THEN /\ pc' = "raised"
               /\ error' = [type |-> "SystemExit", who |-> "argparse", what |-> args_command]
               /\ config_args' = config_args
               /\ config_unknown_args' = config_unknown_args
               /\ log_level' = log_level
          ELSE /\ pc' = "execute_command" /\ error' = error /\ config_args' = "parsed"
               /\ config_unknown_args' = UnknownArgs
               /\ log_level' = LogLevel(args_flags)
  /\ phase_idx' = 0
  /\ attempt' = 1
  /\ UNCHANGED <<inputs, units, store, harness, settings, executions, log, resolver, lifecycle, registries,
                 bus, stack, exceptions, exit_code, trace>>

\* Mutant: the phases of the command fired last first.
NextPhaseReversed(command, n) ==
  CommandPhases[command][Len(CommandPhases[command]) - n]

\* The event execute_command emits after it has fired n phases of the command.
NextPhase(command, n) == CommandPhases[command][n + 1]

\* execute_command: the event of the next phase of the command is emitted,
\* with the arguments of the command line.
EmitPhase ==
  /\ pc = "execute_command"
  /\ stack = <<>>
  /\ phase_idx < Len(CommandPhases[args_command])
  /\ phase_idx' = phase_idx + 1
  /\ stack' = <<Frame(NextPhase(args_command, phase_idx), config_args)>>
  /\ trace' = Append(trace, DidEmit("", NextPhase(args_command, phase_idx), config_args))
  /\ UNCHANGED <<inputs, units, store, harness, settings, logging, session, pc, resolver, lifecycle, registries, bus,
                 exceptions, error, exit_code>>

\* execute_command returns after the last phase; handle_command_line and main
\* return (line 268).
CommandDone ==
  /\ pc = "execute_command"
  /\ stack = <<>>
  /\ phase_idx = Len(CommandPhases[args_command])
  /\ pc' = "returned"
  /\ UNCHANGED <<inputs, units, store, harness, settings, logging, session, resolver, lifecycle, registries,
                 execution, error, exit_code, trace>>

\* Mutant: the retry made in a loop, the signal caught at every execution.
RestartCaughtAlways(n) == TRUE

\* Lines 221-225: the try holds the first execute_command only, the one of the
\* except clause is not guarded.
RestartCaught(n) == n = 1

\* The part of the history that register_features, load_registered_features and
\* register_actions_in_event_bus have written.
Startup(history) ==
  SubSeq(history, 1, CHOOSE k \in 1..Len(history) : history[k].op = "bind")

\* Mutant: the command line parsed again for the second execution, the
\* exceptions of the first forgotten.
CommandRestartFresh ==
  /\ pc = "execute_command"
  /\ stack = <<>>
  /\ restarting
  /\ RestartCaught(attempt)
  /\ config_args' = "restart"
  /\ config_unknown_args' = NoneValue
  /\ exceptions' = <<>>
  /\ attempt' = attempt + 1
  /\ phase_idx' = 0
  /\ executions' = Append(executions, SubSeq(trace, Len(Startup(trace)) + 1, Len(trace)))
  /\ trace' = Startup(trace)
  /\ UNCHANGED <<inputs, units, store, harness, settings, logging, log, resolver, lifecycle,
                 registries, bus, stack, pc, error, exit_code>>

\* execute_command raises RestartWithArgs between two phases. Lines 223-225:
\* in the try, config.args is replaced and the command executed again;
\* otherwise the signal leaves handle_command_line and main.
CommandRestart ==
  /\ pc = "execute_command"
  /\ stack = <<>>
  /\ restarting
  /\ IF RestartCaught(attempt)
     THEN /\ config_args' = "restart"
          /\ attempt' = attempt + 1
          /\ phase_idx' = 0
          /\ executions' = Append(executions,
                                  SubSeq(trace, Len(Startup(trace)) + 1, Len(trace)))
          /\ trace' = Startup(trace)
          /\ UNCHANGED <<pc, error>>
     ELSE /\ pc' = "raised"
          /\ error' = [type |-> "RestartWithArgs", who |-> args_command, what |-> ""]
          /\ UNCHANGED <<config_args, attempt, phase_idx, executions, trace>>
  /\ UNCHANGED <<inputs, units, store, harness, settings, logging, log, resolver, lifecycle, registries, bus,
                 stack, exceptions, exit_code, config_unknown_args>>

\* bus.emit: the next handler of the event is called with the arguments of
\* the event.
HandlerStart ==
  /\ stack # <<>>
  /\ ~Top.running
  /\ Top.i < Len(bus[Top.event])
  /\ stack' = SetTop([Top EXCEPT !.i = @ + 1, !.running = TRUE, !.emitted = 0])
  /\ trace' = Append(trace, DidCall(bus[Top.event][Top.i + 1], Top.args))
  /\ UNCHANGED <<inputs, units, store, harness, settings, logging, session, pc, resolver, lifecycle, registries, bus,
                 phase_idx, exceptions, error, exit_code>>

\* The number of events the running handler emits before it returns.
EmissionsOf(handler) ==
  IF handler.action = WalkAction /\ handler.method = "execute" THEN files ELSE 0

\* Mutant: the emission handed over and not waited for, the emitting handler
\* done with it.
HandlerEmitNotAwaited ==
  /\ stack # <<>>
  /\ Top.running
  /\ Top.emitted < EmissionsOf(HandlerOf(Top))
  /\ stack' = Append(SetTop([Top EXCEPT !.emitted = @ + 1, !.running = FALSE]),
                     Frame(WalkEvent, Top.emitted + 1))
  /\ trace' = Append(trace, DidEmit(HandlerOf(Top).action, WalkEvent, Top.emitted + 1))
  /\ UNCHANGED <<inputs, units, store, harness, settings, logging, session, pc, resolver, lifecycle, registries, bus,
                 phase_idx, exceptions, error, exit_code>>

\* The running handler emits an event for the next file: a nested emission.
\* The handler goes on when bus.emit has returned.
HandlerEmit ==
  /\ stack # <<>>
  /\ Top.running
  /\ Top.emitted < EmissionsOf(HandlerOf(Top))
  /\ stack' = Append(SetTop([Top EXCEPT !.emitted = @ + 1]),
                     Frame(WalkEvent, Top.emitted + 1))
  /\ trace' = Append(trace, DidEmit(HandlerOf(Top).action, WalkEvent, Top.emitted + 1))
  /\ UNCHANGED <<inputs, units, store, harness, settings, logging, session, pc, resolver, lifecycle, registries, bus,
                 phase_idx, exceptions, error, exit_code>>

\* The running handler returns: bus.emit keeps the value; the method of the
\* caching action has stored an entry in its cache.
HandlerReturn ==
  /\ stack # <<>>
  /\ Top.running
  /\ Top.emitted = EmissionsOf(HandlerOf(Top))
  /\ stack' = SetTop([Top EXCEPT !.running = FALSE,
                                 !.results = Append(@, ReturnValue(HandlerOf(Top), Top.args))])
  /\ cache_data' = IF /\ HandlerOf(Top).action = CachingAction
                      /\ RunnerCall(HandlerOf(Top), Top.args).invoked
                   THEN cache_data \cup {CachingCache} ELSE cache_data
  /\ trace' = Append(trace, Did("return", HandlerOf(Top).action, Top.event))
  /\ UNCHANGED <<inputs, units, caches, harness, settings, logging, session, pc, resolver, lifecycle, registries, bus,
                 phase_idx, exceptions, error, exit_code>>

\* The context of a recorded error: the invocation path, outermost first, each
\* handler with the arguments of its event.
ErrorContext(stk) ==
  [k \in 1..Len(stk) |->
     [event |-> stk[k].event, action |-> HandlerOf(stk[k]).action,
      method |-> HandlerOf(stk[k]).method, args |-> stk[k].args]]

RECURSIVE Unwind(_)
\* The method of the handler running in the last frame of stk raises. Its
\* runner records the exception with the invocation path and lets the emission
\* go on with the next handler; with fail_fast it raises the exception again,
\* which leaves bus.emit and reaches the handler that emitted, and so on.
Unwind(stk) ==
  IF stk = <<>> THEN [stack |-> <<>>, caught |-> FALSE, path |-> <<>>, context |-> <<>>]
  ELSE LET top == stk[Len(stk)]
       IN IF bus[top.event][top.i].fail_fast
          THEN Unwind(SubSeq(stk, 1, Len(stk) - 1))
          ELSE [stack |-> [stk EXCEPT ![Len(stk)] =
                             [top EXCEPT !.running = FALSE,
                                         !.results = Append(@, NoneValue)]],
                caught |-> TRUE,
                path |-> [k \in 1..Len(stk) |-> HandlerOf(stk[k])],
                context |-> ErrorContext(stk)]

\* The method of the running handler raises.
HandlerRaise ==
  /\ stack # <<>>
  /\ Top.running
  /\ RunnerCall(HandlerOf(Top), Top.args).invoked
  /\ HandlerOf(Top).action \in faulty
  /\ trace' = Append(trace, Did("raise", HandlerOf(Top).action, Top.event))
  /\ LET r == Unwind(stack)
     IN /\ stack' = r.stack
        /\ IF r.caught
           THEN /\ exceptions' = Append(exceptions, r.path)
                /\ log' = Append(log, r.context)
                /\ pc' = pc
                /\ error' = error
           ELSE /\ exceptions' = exceptions
                /\ log' = log
                /\ pc' = "raised"
                /\ error' = [type |-> "Exception", who |-> HandlerOf(Top).action,
                             what |-> Top.event]
  /\ UNCHANGED <<inputs, units, store, harness, settings, logging, config_args, config_unknown_args, attempt, executions, resolver,
                 lifecycle, registries, bus, phase_idx, exit_code>>

\* bus.emit returns the values of the handlers: every handler of the event
\* has been called.
EmitReturn ==
  /\ stack # <<>>
  /\ ~Top.running
  /\ Top.i = Len(bus[Top.event])
  /\ stack' = SubSeq(stack, 1, Len(stack) - 1)
  /\ trace' = Append(trace, DidEmitted(Top))
  /\ UNCHANGED <<inputs, units, store, harness, settings, logging, session, pc, resolver, lifecycle, registries, bus,
                 phase_idx, exceptions, error, exit_code>>

(***************************************************************************)
(* reset                                                                   *)
(***************************************************************************)
\* What the history keeps of the state reset() is called in.
Snapshot ==
  [pc |-> pc, features |-> features, registry |-> registry, bus |-> bus,
   caches |-> caches, cache_data |-> cache_data]

NoSnapshot ==
  [pc |-> "", features |-> <<>>, registry |-> [k \in Range(HarvestKinds) |-> <<>>],
   bus |-> [e \in Events |-> <<>>], caches |-> <<>>, cache_data |-> {}]

\* clear_caches, lines 271-277: every registered cache is cleared and flushed.
ClearCaches(registered, data) == data \ Range(registered)

\* Mutant: the cache registry emptied before clear_caches runs, which finds
\* no cache.
CacheCallsEmptied(registered) == <<>>

RECURSIVE CacheCalls(_)
\* clear_caches, lines 275-277: clear() then flush() on each cache of
\* caches.all(), in the order of the registry.
CacheCalls(registered) ==
  IF registered = <<>> THEN <<>>
  ELSE <<[op |-> "clear", cache |-> Head(registered)],
         [op |-> "flush", cache |-> Head(registered)]>> \o CacheCalls(Tail(registered))

\* Mutant: clear_caches looks the default caches up by name, which fails
\* when they are not registered.
ClearCachesFailsUnregistered(registered) == Range(DefaultCaches) \ Range(registered) # {}

\* clear_caches, lines 275-277: the loop runs over the caches registered,
\* over none when none is, and nothing in it fails.
ClearCachesFails(registered) == FALSE

\* Mutant: the handlers left bound.
BusKept == bus

\* bus.clear(), line 287.
ClearedBus == [e \in Events |-> <<>>]

\* context.reset(), line 295: the context is initialised again.
ClearedExceptions == <<>>

\* The clear() of the phase, command, action, binary and service registries,
\* lines 289-293.
ClearedRegistry == [k \in Range(HarvestKinds) |-> <<>>]

\* Config.reset, lines 45-49 of config.py: __init__ runs again; it sets data to
\* an empty store and does not name args, which line 219 or 224 has set.
ResetConfigArgs(current) == current

\* reset(), called by the caller of main when main is not running: before it
\* was called, after it has returned or after it has raised. The locals of
\* main are gone by then.
Reset ==
  /\ pc \in {"main", "returned", "raised"}
  /\ round < caller_resets
  /\ round' = round + 1
  /\ prev' = Snapshot
  /\ IF ClearCachesFails(caches)
     THEN /\ pc' = "raised"
          /\ error' = [type |-> "KeyError", who |-> "caches", what |-> ""]
          /\ UNCHANGED <<resolver, lifecycle, registries, execution, store, settings,
                         session, trace, cache_calls>>
     ELSE /\ cache_calls' = CacheCalls(caches)
          /\ cache_data' = ClearCaches(caches, cache_data)
          /\ caches' = <<>>
          /\ bus' = ClearedBus
          /\ features' = <<>>
          /\ feature_origin' = <<>>
          /\ registry' = ClearedRegistry
          /\ exceptions' = ClearedExceptions
          /\ stack' = <<>>
          /\ config_shell' = ""
          /\ config_docker' = NoDockerConfig
          /\ disabled' = [f \in Features |-> FALSE]
          /\ config_args' = ResetConfigArgs(config_args)
          /\ config_unknown_args' = ResetConfigArgs(config_unknown_args)
          /\ pc' = "main"
          /\ error' = NoError
          /\ idx' = 1
          /\ required_dependencies' = <<>>
          /\ toposort_data' = <<>>
          /\ sorted_feature_names' = <<>>
          /\ enabled_features' = <<>>
          /\ phase_idx' = 0
          /\ attempt' = 1
          /\ executions' = <<>>
          /\ log' = <<>>
          /\ trace' = <<>>
  /\ UNCHANGED <<inputs, units, exit_code, logging>>

(***************************************************************************)
(* console_script                                                          *)
(***************************************************************************)
\* Mutant: the exceptions main returns not looked at.
ExitStatusZero(returned) == 0

\* Mutant: one exception not enough for a failure.
ExitStatusMoreThanOne(returned) == IF Len(returned) > 1 THEN 1 ELSE 0

\* Mutant: the test of line 304 left out.
ExitStatusAlways(returned) == 1

\* Lines 303-305.
ExitStatus(returned) == IF returned # <<>> THEN 1 ELSE 0

ConsoleScript ==
  /\ pc = "returned"
  /\ exit_code' = ExitStatus(exceptions)
  /\ pc' = "exited"
  /\ UNCHANGED <<inputs, units, store, harness, settings, logging, session, resolver, lifecycle, registries, execution, error, trace>>

\* An exception that leaves main ends the interpreter with status 1, a
\* SystemExit with its own status (2 for argparse).
UncaughtException ==
  /\ pc = "raised"
  /\ exit_code' = IF error.type = "SystemExit" THEN 2 ELSE 1
  /\ pc' = "exited"
  /\ UNCHANGED <<inputs, units, store, harness, settings, logging, session, resolver, lifecycle, registries, execution, error, trace>>

(***************************************************************************)
(* The specifications.                                                     *)
(***************************************************************************)
\* A dependency entry: a token of a feature's dependencies (required or
\* optional) or an element of the configured map (configured).
DeclaredEntries == [from : Features, to : Names, how : {"required", "optional"}]
ConfiguredEntries == [from : Names, to : Names \cup {""}, how : {"configured"}]

\* The narrow family: required dependencies between two features.
RunEntries == {e \in DeclaredEntries : e.how = "required" /\ e.to \in Features \ {e.from}}

\* The family around a key of the configured map that is no feature: the
\* dependencies the map gives that key, the optional dependencies on it and
\* the required dependencies between features.
KeyEntries ==
  {e \in ConfiguredEntries : e.from = Absent /\ e.to # Absent}
    \cup {e \in DeclaredEntries : e.how = "optional" /\ e.to = Absent}
    \cup RunEntries

DeclaredOf(entries) ==
  [f \in Features |->
     {[base |-> e.to, suffix |-> IF e.how = "optional" THEN OptionalSuffix ELSE ""] :
        e \in {d \in entries : d.how # "configured" /\ d.from = f}}]

ConfiguredOf(entries) ==
  {[feat |-> e.from, dep |-> e.to] : e \in {d \in entries : d.how = "configured"}}

(***************************************************************************)
(* Config.apply_environ_overrides (src/ddb/config/config.py): a feature's  *)
(* configuration overridden by the variables of the environment.  Strings  *)
(* are sequences of characters; a configuration is a tree of strings,      *)
(* dicts and lists.                                                        *)
(***************************************************************************)
\* Bound on the length of the lists of a feature's configuration.
MaxItems == 1
\* Bound on the number of variables the environment sets.
MaxVars == 2

\* A str value.
Str(text) == [kind |-> "str", text |-> text, items |-> <<>>]
\* An item of a dict.
Entry(name, value) == [name |-> name, value |-> value]
\* A dict, its items in insertion order.
Dict(items) == [kind |-> "dict", text |-> <<>>, items |-> items]
\* A list.
List(items) == [kind |-> "list", text |-> <<>>, items |-> items]

\* str.upper() on one character.
UpperChar(c) ==
  CASE c = "a" -> "A"
    [] c = "b" -> "B"
    [] c = "f" -> "F"
    [] c = "v" -> "V"
    [] OTHER -> c

\* str.upper().
Upper(s) == [i \in 1..Len(s) |-> UpperChar(s[i])]

\* str(i) for an index of a list.
StrOfIndex(i) ==
  CASE i = 0 -> <<"0">>
    [] i = 1 -> <<"1">>
    [] i = 2 -> <<"2">>
    [] OTHER -> <<"9">>

\* Config.env_override_prefix.
EnvOverridePrefix == <<"D", "D", "B", "_", "O", "V", "E", "R", "R", "I", "D", "E">>

\* The key of the feature whose configuration is resolved.
FeatureKey == <<"f">>

\* os.environ.get(name): None (as falsy as the empty string) when not set.
EnvironGet(env, name) == IF name \in DOMAIN env THEN env[name] ELSE NoneValue

RECURSIVE ApplyEnvironOverrides(_, _, _)
\* apply_environ_overrides(data, prefix) under the environment env.
ApplyEnvironOverrides(env, data, prefix) ==
  LET upper == Upper(IF prefix = <<>> THEN EnvOverridePrefix ELSE prefix)
      environ_value == EnvironGet(env, upper)
  IN IF environ_value # <<>> THEN Str(environ_value)
     ELSE IF data.kind = "dict"
     THEN Dict([i \in 1..Len(data.items) |->
                  Entry(data.items[i].name,
                        ApplyEnvironOverrides(env, data.items[i].value,
                                              Upper(upper \o <<"_">> \o data.items[i].name)))])
     ELSE IF data.kind = "list"
     THEN List([i \in 1..Len(data.items) |->
                  LET replace_prefix == Upper(upper \o <<"[">> \o StrOfIndex(i - 1) \o <<"]">>)
                  IN IF EnvironGet(env, replace_prefix) # <<>>
                     THEN ApplyEnvironOverrides(env, data.items[i], replace_prefix)
                     ELSE data.items[i]])
     ELSE data

\* sanitize_and_validate: the prefix it hands to apply_environ_overrides.
FeaturePrefix(key) == EnvOverridePrefix \o <<"_">> \o key

(***************************************************************************)
(* The shell feature (src/ddb/feature/shell/actions.py): the backup of the *)
(* environment, its encoding, and the commands given to the shell.         *)
(* Strings are sequences of characters.                                    *)
(***************************************************************************)
\* The printable characters, in the order of their code points from 32 on
\* (the grave accent, 96, by its name).
Ascii ==
  <<" ", "!", "\"", "#", "$", "%", "&", "'", "(", ")", "*", "+",
     ",", "-", ".", "/", "0", "1", "2", "3", "4", "5", "6", "7",
     "8", "9", ":", ";", "<", "=", ">", "?", "@", "A", "B", "C",
     "D", "E", "F", "G", "H", "I", "J", "K", "L", "M", "N", "O",
     "P", "Q", "R", "S", "T", "U", "V", "W", "X", "Y", "Z", "[",
     "\\", "]", "^", "_", "grave", "a", "b", "c", "d", "e", "f", "g",
     "h", "i", "j", "k", "l", "m", "n", "o", "p", "q", "r", "s",
     "t", "u", "v", "w", "x", "y", "z", "{", "|", "}", "~">>

\* ord(c) and chr(n).
Ord(c) == 31 + (CHOOSE i \in 1..Len(Ascii) : Ascii[i] = c)
Chr(n) == Ascii[n - 31]

RECURSIVE StrLess(_, _)
\* s < t for two str: the order sorted() uses.
StrLess(s, t) ==
  IF t = <<>> THEN FALSE
  ELSE IF s = <<>> THEN TRUE
  ELSE IF Head(s) = Head(t) THEN StrLess(Tail(s), Tail(t))
  ELSE Ord(Head(s)) < Ord(Head(t))

RECURSIVE SortedKeys(_)
\* sorted(keys).
SortedKeys(keys) ==
  IF keys = {} THEN <<>>
  ELSE LET first == CHOOSE k \in keys : \A o \in keys \ {k} : StrLess(k, o)
       IN <<first>> \o SortedKeys(keys \ {first})

RECURSIVE JsonEscape(_)
\* json.dumps of the characters of a str: the quote and the backslash escaped.
JsonEscape(s) ==
  IF s = <<>> THEN <<>>
  ELSE (IF Head(s) \in {"\"", "\\"} THEN <<"\\", Head(s)>> ELSE <<Head(s)>>)
       \o JsonEscape(Tail(s))

\* json.dumps of a str.
JsonString(s) == <<"\"">> \o JsonEscape(s) \o <<"\"">>

RECURSIVE JsonItems(_, _)
\* json.dumps of the items of a dict, keys in the given order.
JsonItems(d, keys) ==
  IF keys = <<>> THEN <<>>
  ELSE JsonString(Head(keys)) \o <<":", " ">> \o JsonString(d[Head(keys)])
       \o (IF Len(keys) > 1 THEN <<",", " ">> ELSE <<>>)
       \o JsonItems(d, Tail(keys))

\* json.dumps(d) for a dict of str.
JsonDumps(d) == <<"{">> \o JsonItems(d, SortedKeys(DOMAIN d)) \o <<"}">>

RECURSIVE JsonScan(_, _, _)
\* json.loads of a str: s[i] is the character after the opening quote or
\* after what acc holds; the text, and the index after the closing quote.
JsonScan(s, i, acc) ==
  IF s[i] = "\"" THEN [text |-> acc, next |-> i + 1]
  ELSE IF s[i] = "\\" THEN JsonScan(s, i + 2, Append(acc, s[i + 1]))
  ELSE JsonScan(s, i + 1, Append(acc, s[i]))

RECURSIVE JsonParseItems(_, _, _)
\* json.loads of the items of a dict: s[i] opens a key; acc holds the items
\* read so far.
JsonParseItems(s, i, acc) ==
  LET key == JsonScan(s, i + 1, <<>>)
      value == JsonScan(s, key.next + 3, <<>>)
      items == [k \in DOMAIN acc \cup {key.text} |->
                  IF k = key.text THEN value.text ELSE acc[k]]
  IN IF s[value.next] = "," THEN JsonParseItems(s, value.next + 2, items)
     ELSE items

\* The dict without items.
EmptyDict == [k \in {} |-> <<>>]

\* json.loads(s) for the dumps of a dict of str.
JsonLoads(s) == IF s[2] = "}" THEN EmptyDict ELSE JsonParseItems(s, 2, EmptyDict)

\* str.encode("utf-8") and bytes.decode("utf-8") of ASCII text.
Utf8Encode(s) == [i \in 1..Len(s) |-> Ord(s[i])]
Utf8Decode(b) == [i \in 1..Len(b) |-> Chr(b[i])]

\* The alphabet of base64.
B64Alphabet ==
  <<"A", "B", "C", "D", "E", "F", "G", "H", "I", "J", "K", "L", "M",
     "N", "O", "P", "Q", "R", "S", "T", "U", "V", "W", "X", "Y", "Z",
     "a", "b", "c", "d", "e", "f", "g", "h", "i", "j", "k", "l", "m",
     "n", "o", "p", "q", "r", "s", "t", "u", "v", "w", "x", "y", "z",
     "0", "1", "2", "3", "4", "5", "6", "7", "8", "9", "+", "/">>

B64Value(c) == (CHOOSE i \in 1..64 : B64Alphabet[i] = c) - 1

RECURSIVE B64Encode(_)
\* base64.b64encode(bytes).decode("utf-8"): three bytes make four characters,
\* the last group padded with '='.
B64Encode(bytes) ==
  IF bytes = <<>> THEN <<>>
  ELSE LET n == IF Len(bytes) < 3 THEN Len(bytes) ELSE 3
           v == bytes[1] * 65536 + (IF n >= 2 THEN bytes[2] * 256 ELSE 0)
                + (IF n = 3 THEN bytes[3] ELSE 0)
       IN <<B64Alphabet[(v \div 262144) + 1],
            B64Alphabet[((v \div 4096) % 64) + 1],
            IF n >= 2 THEN B64Alphabet[((v \div 64) % 64) + 1] ELSE "=",
            IF n = 3 THEN B64Alphabet[(v % 64) + 1] ELSE "=">>
          \o B64Encode(SubSeq(bytes, n + 1, Len(bytes)))

RECURSIVE B64Decode(_)
\* base64.b64decode(s): four characters make three bytes, less for padding.
B64Decode(s) ==
  IF s = <<>> THEN <<>>
  ELSE LET pad == Cardinality({i \in 3..4 : s[i] = "="})
           sextet(i) == IF s[i] = "=" THEN 0 ELSE B64Value(s[i])
           v == sextet(1) * 262144 + sextet(2) * 4096 + sextet(3) * 64 + sextet(4)
       IN SubSeq(<<v \div 65536, (v \div 256) % 256, v % 256>>, 1, 3 - pad)
          \o B64Decode(SubSeq(s, 5, Len(s)))

\* encode_environ_backup(environ_backup).
EncodeEnvironBackup(environ_backup) == B64Encode(Utf8Encode(JsonDumps(environ_backup)))

\* decode_environ_backup(encoded_environ_backup).
DecodeEnvironBackup(encoded) == JsonLoads(Utf8Decode(B64Decode(encoded)))

\* config.env_prefix + "_SHELL_ENVIRON_BACKUP" and config.env_prefix + "_PROJECT_HOME".
EnvEnvironBackup == <<"D", "D", "B", "_", "S", "H", "E", "L", "L", "_", "E", "N", "V", "I", "R", "O", "N", "_", "B", "A", "C", "K", "U", "P">>
EnvProjectHome == <<"D", "D", "B", "_", "P", "R", "O", "J", "E", "C", "T", "_", "H", "O", "M", "E">>
PathVariable == <<"P", "A", "T", "H">>

\* os.pathsep.
PathSep == <<":">>

\* A command given to the shell: set_environment_variable(key, value) or
\* remove_environment_variable(key).
SetVariable(key, value) == [op |-> "set", key |-> key, value |-> value]
RemoveVariable(key) == [op |-> "remove", key |-> key, value |-> <<>>]

\* apply_diff_to_shell that gives the commands in the order the diff finds
\* the keys: added, changed, removed.
RECURSIVE DiffCommands(_, _, _)
DiffCommands(source, target, keys) ==
  IF keys = <<>> THEN <<>>
  ELSE <<IF Head(keys) \in DOMAIN target THEN SetVariable(Head(keys), target[Head(keys)])
         ELSE RemoveVariable(Head(keys))>>
       \o DiffCommands(source, target, Tail(keys))

ApplyDiffToShellUnsorted(source, target) ==
  DiffCommands(source, target,
               SortedKeys(DOMAIN target \ DOMAIN source)
               \o SortedKeys({k \in DOMAIN source \cap DOMAIN target : source[k] # target[k]})
               \o SortedKeys(DOMAIN source \ DOMAIN target))

\* apply_diff_to_shell(shell, source_environment, target_environment) with no
\* envignore: the keys the diff adds or changes are set to the target's value,
\* the keys it removes are removed, in the order of the sorted keys.
ApplyDiffToShell(source, target) ==
  DiffCommands(source, target,
               SortedKeys((DOMAIN target \ DOMAIN source)
                          \cup {k \in DOMAIN source \cap DOMAIN target : source[k] # target[k]}
                          \cup (DOMAIN source \ DOMAIN target)))

\* dict.update and item assignment: the items of other replace those of d.
Updated(d, other) ==
  [k \in DOMAIN d \cup DOMAIN other |-> IF k \in DOMAIN other THEN other[k] ELSE d[k]]

RECURSIVE Evaluated(_, _)
\* The environment of the shell once it has evaluated the commands.
Evaluated(env, commands) ==
  IF commands = <<>> THEN env
  ELSE LET c == Head(commands)
       IN Evaluated(IF c.op = "set"
                    THEN [k \in DOMAIN env \cup {c.key} |->
                            IF k = c.key THEN c.value ELSE env[k]]
                    ELSE [k \in DOMAIN env \ {c.key} |-> env[k]],
                    Tail(commands))

(***************************************************************************)
(* FixuidDockerComposeAction (src/ddb/feature/fixuid/actions.py): execute, *)
(* fixuid_services, find_fixuid_service, the processor of 'file:generated' *)
(* and apply_fixuid.  The contents of the Dockerfile are not modelled: the *)
(* history records that apply_fixuid writes to it.                         *)
(***************************************************************************)
\* Bound on the number of services of the docker-compose configuration.
MaxServices == 2
\* Bound on the depth of the calls of apply_fixuid, one inside the emission
\* of the other, at which Python's recursion limit is taken to be reached.
MaxNesting == 2

\* The build contexts: absolute directories.
Contexts == {"p", "q"}

\* Dotty(service).get("build.dockerfile", "Dockerfile"): the default.
DefaultDockerfile == "Dockerfile"

\* The name copy_from_url is given for the archive.
FixuidArchive == "fixuid.tar.gz"

\* os.path.join(directory, name); os.path.abspath of it is the same path.
Join(directory, name) == <<directory, name>>

Paths == {Join(c, n) : c \in Contexts, n \in {DefaultDockerfile, FixuidArchive}}

BuildServiceDef(context, dockerfile) == [context |-> context, dockerfile |-> dockerfile]

\* No service: None.
NoService == BuildServiceDef("", "")

\* A service of the docker-compose configuration: no 'build' key (""), a
\* build that is a string (the context), a dict (with its context, and a
\* dockerfile or "" for none), or a value of another type ("other").
ComposeServices ==
  {[build |-> b, context |-> "", dockerfile |-> ""] : b \in {"", "other"}}
  \cup {[build |-> "str", context |-> c, dockerfile |-> ""] : c \in Contexts}
  \cup {[build |-> "dict", context |-> c, dockerfile |-> d] :
          c \in Contexts, d \in {"", FixuidArchive}}

\* The docker-compose configurations: without a 'services' key, or with one.
ComposeConfigs ==
  {[has_services |-> FALSE, services |-> <<>>]}
  \cup {[has_services |-> TRUE, services |-> s] : s \in SeqsUpTo(ComposeServices, MaxServices)}

\* fixuid_services, with the check of fixuid.yml left out.
RECURSIVE BuildServices(_, _)
BuildServices(services, yml) ==
  IF services = <<>> THEN <<>>
  ELSE LET service == Head(services)
       IN IF service.build \notin {"dict", "str"} THEN BuildServices(Tail(services), yml)
          ELSE <<BuildServiceDef(service.context,
                                 IF service.dockerfile = "" THEN DefaultDockerfile
                                 ELSE service.dockerfile)>>
               \o BuildServices(Tail(services), yml)

RECURSIVE YieldedServices(_, _)
\* fixuid_services, lines 233-248: the loop over the services; yml is the
\* set of directories that hold a file fixuid.yml.
YieldedServices(services, yml) ==
  IF services = <<>> THEN <<>>
  ELSE LET service == Head(services)
       IN IF service.build \notin {"dict", "str"} THEN YieldedServices(Tail(services), yml)
          ELSE IF service.context \notin yml THEN YieldedServices(Tail(services), yml)
          ELSE <<BuildServiceDef(service.context,
                                 IF service.dockerfile = "" THEN DefaultDockerfile
                                 ELSE service.dockerfile)>>
               \o YieldedServices(Tail(services), yml)

\* The property fixuid_services.
FixuidServices(config, yml) ==
  IF ~config.has_services THEN <<>> ELSE YieldedServices(config.services, yml)

\* find_fixuid_service that takes the first fixuid service, whatever the path.
FindFirstService(config, yml, filepath) ==
  LET services == FixuidServices(config, yml)
  IN IF services = <<>> THEN NoService ELSE services[1]

\* find_fixuid_service(filepath).
FindService(config, yml, filepath) ==
  LET services == FixuidServices(config, yml)
      found == {i \in 1..Len(services) :
                  Join(services[i].context, services[i].dockerfile) = filepath}
  IN IF found = {} THEN NoService
     ELSE services[CHOOSE i \in found : \A j \in found : i <= j]

\* file_generated_processor(source, target): the service apply_fixuid is
\* called with, NoService when the processor returns None (no call).
ProcessFileGenerated(config, yml, target) == FindService(config, yml, target)

\* The permission bits of a file, and stat.S_IWUSR.
ModeBits == {"S_IRUSR", "S_IWUSR", "S_IRGRP"}
S_IWUSR == {"S_IWUSR"}

\* The mode open() creates a file with.
CreatedMode == {"S_IRUSR", "S_IWUSR", "S_IRGRP"}

\* os.stat of a path: whether the file exists, and its mode.
NoFile == [exists |-> FALSE, mode |-> {}]
File(mode) == [exists |-> TRUE, mode |-> mode]

\* os.access(path, os.W_OK) for the owner of the file.
Access(st) == st.exists /\ S_IWUSR \subseteq st.mode

\* os.path.isfile(path).
IsFile(st) == st.exists

\* dockerfile_path_stat: None, or the stat taken at line 144.
NoStat == [taken |-> FALSE, mode |-> {}]
Stat(st) == [taken |-> TRUE, mode |-> st.mode]

\* A call of apply_fixuid in progress.
FixuidFrame(service, saved, stage, raised) ==
  [service |-> service, saved |-> saved, stage |-> stage, raised |-> raised]

\* An entry of the history of the fixuid action.
FixuidDid(op, path) == [op |-> op, path |-> path]

IdleFixuid ==
  /\ docker_compose_config = [has_services |-> FALSE, services |-> <<>>]
  /\ fixuid_yml = {}
  /\ dockerfile_stat = [p \in Paths |-> NoFile]
  /\ stat_before = dockerfile_stat
  /\ raising = ""
  /\ applying = <<>>
  /\ remaining = <<>>
  /\ fixuid_log = <<>>
  /\ fixuid_error = ""

IdleShell ==
  /\ shell_environ = EmptyDict
  /\ shell_initial = EmptyDict
  /\ shell_commands = <<>>
  /\ path_directories = <<>>
  /\ path_prepend = FALSE
  /\ changes = 0

IdleOverrides ==
  /\ environ = <<>>
  /\ raw_feature_config = Dict(<<>>)
  /\ feature_config = Dict(<<>>)

\* No function is called on its own: the state main runs in.
Idle ==
  /\ unit = ""
  /\ IdleOverrides
  /\ IdleFixuid
  /\ IdleShell

\* The state main is called in, the inputs left open.
Start ==
  /\ pc = "main"
  /\ idx = 1
  /\ required_dependencies = <<>>
  /\ toposort_data = <<>>
  /\ sorted_feature_names = <<>>
  /\ features = <<>>
  /\ feature_origin = <<>>
  /\ disabled = [f \in Features |-> FALSE]
  /\ config_shell = ""
  /\ config_docker = NoDockerConfig
  /\ log_level = ""
  /\ enabled_features = <<>>
  /\ registry = [k \in Range(HarvestKinds) |-> <<>>]
  /\ bus = [e \in Events |-> <<>>]
  /\ phase_idx = 0
  /\ stack = <<>>
  /\ exceptions = <<>>
  /\ error = NoError
  /\ exit_code = -1
  /\ caches = <<>>
  /\ cache_data = {}
  /\ config_args = ""
  /\ config_unknown_args = NoneValue
  /\ attempt = 1
  /\ round = 0
  /\ prev = NoSnapshot
  /\ cache_calls = <<>>
  /\ executions = <<>>
  /\ log = <<>>
  /\ trace = <<>>

\* A dependency graph of the narrow family.
RunGraph ==
  \E g \in SetsUpTo(RunEntries, MaxRunDeps) :
    feat_dependencies = DeclaredOf(g) /\ cfg_dependencies = ConfiguredOf(g)

\* register_features is given the default features and no entry point loads
\* a feature.
DefaultsOnly ==
  /\ default_features = DefaultFeatures
  /\ entry_points = <<>>

\* The environments of the docker feature.
DockerEnvs == [ip : {NoIp, ConfiguredIp}, host : DockerHosts, interface : Interfaces]

\* The network interface of the docker feature has an IPv4 address, no ip is
\* configured and DOCKER_HOST is not set.
PlainDocker == docker_env = [ip |-> NoIp, host |-> "", interface |-> "ipv4"]

\* Every generated file is the Dockerfile of a fixuid service.
AllServices == fixuid_services = 1..MaxFiles

\* The flags of the command line.
Flags == [verbose : BOOLEAN, very_verbose : BOOLEAN, silent : BOOLEAN]

NoFlags == [verbose |-> FALSE, very_verbose |-> FALSE, silent |-> FALSE]

\* A command line without flags.
PlainRun ==
  /\ args_flags = NoFlags

\* No hook raises, no names clash, the command asks for no restart and the
\* caller of main does not call reset().
Undisturbed ==
  /\ PlainDocker
  /\ AllServices
  /\ PlainRun
  /\ failing_hook = NoHook
  /\ clash = ""
  /\ restarting = FALSE
  /\ caller_resets = 0

\* Every behaviour of the features and of the handlers.
InitHandlers ==
  /\ DefaultsOnly
  /\ RunGraph
  /\ cfg_disabled \in SUBSET Features
  /\ cfg_shell \in Shells \cup {""}
  /\ fail_fast \in BOOLEAN
  /\ faulty = Actions
  /\ files \in 0..MaxFiles
  /\ args_command \in {"", "cmd"}
  \* Without a command no handler is bound to run: the policy and the files
  \* are never read, one value of each stands for all.
  /\ args_command = "" => (fail_fast = FALSE /\ files = 0)
  \* The files found are walked the same way whatever the order of the
  \* features and the shell: they are explored with the features in
  \* registration order and the default shell.
  /\ files > 0 => (cfg_shell = "" /\ cfg_dependencies = {}
                     /\ \A f \in Features : feat_dependencies[f] = {})
  /\ Undisturbed

\* A command of one phase.
InitOnePhase ==
  /\ DefaultsOnly
  /\ RunGraph
  /\ cfg_disabled \in SUBSET Features
  /\ cfg_shell = ""
  /\ fail_fast \in BOOLEAN
  /\ faulty = Actions
  /\ files = 0
  /\ args_command = "one"
  /\ Undisturbed

\* A lifecycle hook of a feature raises, or two features name an object alike.
InitLoadFailure ==
  /\ DefaultsOnly
  /\ PlainDocker
  /\ AllServices
  /\ PlainRun
  /\ RunGraph
  /\ cfg_disabled \in {{}, {"b"}}
  /\ cfg_shell = ""
  /\ fail_fast = FALSE
  /\ faulty = {}
  /\ files = 0
  /\ args_command = "cmd"
  /\ \/ failing_hook \in [step : Hooks, feature : Features] /\ clash = ""
     \/ failing_hook = NoHook /\ clash \in Range(HarvestKinds)
  /\ restarting = FALSE
  /\ caller_resets = 0

\* The command may ask for a restart.
InitRestart ==
  /\ DefaultsOnly
  /\ PlainDocker
  /\ AllServices
  /\ PlainRun
  /\ RunGraph
  /\ cfg_disabled = {}
  /\ cfg_shell = ""
  /\ fail_fast \in BOOLEAN
  /\ faulty = {"b1"}
  /\ files = 0
  /\ args_command = "cmd"
  /\ failing_hook = NoHook
  /\ clash = ""
  /\ restarting = TRUE
  /\ caller_resets = 0

\* The caller of main calls reset() and main again.
InitReset ==
  /\ DefaultsOnly
  /\ PlainDocker
  /\ AllServices
  /\ PlainRun
  /\ RunGraph
  /\ cfg_disabled = {}
  /\ cfg_shell = ""
  /\ fail_fast \in BOOLEAN
  /\ faulty = {"b1"}
  /\ files \in 0..MaxFiles
  /\ args_command \in {"", "cmd"}
  /\ failing_hook = NoHook
  /\ clash \in {"", "services"}
  /\ restarting = FALSE
  /\ caller_resets \in 1..MaxResets
  \* Files are found by one plain run, which fills a cache before the reset.
  /\ files > 0 => (/\ caller_resets = 1 /\ args_command = "cmd" /\ clash = ""
                   /\ ~fail_fast /\ cfg_dependencies = {}
                   /\ \A f \in Features : feat_dependencies[f] = {})
  \* Repeated resets are explored with the features in registration order.
  /\ caller_resets > 1 => (cfg_dependencies = {}
                             /\ \A f \in Features : feat_dependencies[f] = {})

\* The sequences of n distinct elements of S.
Arrangements(S, n) ==
  {q \in [1..n -> S] : \A i, j \in 1..n : q[i] = q[j] => i = j}

\* The features are given in any order, or entry points load features whose
\* names the default features have.
InitDiscovery ==
  /\ \/ /\ default_features \in Arrangements(Features, Cardinality(Features))
        /\ entry_points = <<>>
     \/ /\ default_features = DefaultFeatures
        /\ entry_points \in SeqsUpTo(Features \ {ShellFeature}, MaxEntryPoints)
  /\ RunGraph
  /\ cfg_disabled = {}
  /\ cfg_shell = ""
  /\ fail_fast = FALSE
  /\ faulty = {}
  /\ files = 0
  /\ args_command = "cmd"
  /\ Undisturbed

\* Every environment of the docker feature, enabled or disabled.
InitAutoConfigure ==
  /\ DefaultsOnly
  /\ docker_env \in DockerEnvs
  /\ AllServices
  /\ PlainRun
  /\ RunGraph
  /\ cfg_disabled \in {{}, {DockerFeature}}
  /\ cfg_shell = ""
  /\ fail_fast = FALSE
  /\ faulty = {}
  /\ files = 0
  /\ args_command = "one"
  /\ failing_hook = NoHook
  /\ clash = ""
  /\ restarting = FALSE
  /\ caller_resets = 0

\* Every set of Dockerfiles of fixuid services among the generated files.
InitProcessor ==
  /\ DefaultsOnly
  /\ PlainDocker
  /\ fixuid_services \in SUBSET (1..MaxFiles)
  /\ PlainRun
  /\ cfg_dependencies = {}
  /\ feat_dependencies = [f \in Features |-> {}]
  /\ cfg_disabled = {}
  /\ cfg_shell = ""
  /\ fail_fast \in BOOLEAN
  /\ faulty \in {{}, {ProcessedAction}}
  /\ files \in 1..MaxFiles
  /\ args_command = "cmd"
  /\ failing_hook = NoHook
  /\ clash = ""
  /\ restarting = FALSE
  /\ caller_resets = 0

\* Every combination of the flags of the command line, with a command,
\* without one and with a command that no feature declares.
InitFlags ==
  /\ DefaultsOnly
  /\ PlainDocker
  /\ AllServices
  /\ args_flags \in Flags
  /\ cfg_dependencies = {}
  /\ feat_dependencies = [f \in Features |-> {}]
  /\ cfg_disabled = {}
  /\ cfg_shell = ""
  /\ fail_fast = FALSE
  /\ faulty = {}
  /\ files = 0
  /\ args_command \in {"", "cmd", "none"}
  /\ failing_hook = NoHook
  /\ clash = ""
  /\ restarting = FALSE
  /\ caller_resets = 0

\* Few dependency graphs, the behaviour of the features, of the handlers, of
\* the command and of the caller of main explored widely.
Init ==
  /\ \/ InitHandlers
     \/ InitFlags
     \/ InitProcessor
     \/ InitAutoConfigure
     \/ InitDiscovery
     \/ InitOnePhase
     \/ InitLoadFailure
     \/ InitRestart
     \/ InitReset
  /\ Start
  /\ Idle

\* Every dependency graph and the larger graphs around a key of the
\* configured map that is no feature, one behaviour of the features and of
\* the handlers;
\* with no dependency at all a command runs over one file and asks for a
\* restart, and the caller of main calls reset() once; with dependencies no
\* command is given.
InitFeatures ==
  /\ \E g \in SetsUpTo(DeclaredEntries \cup ConfiguredEntries, MaxDeps)
                \cup SetsUpTo(KeyEntries, MaxKeyDeps) :
       /\ feat_dependencies = DeclaredOf(g)
       /\ cfg_dependencies = ConfiguredOf(g)
       /\ restarting = (g = {})
       /\ caller_resets = IF g = {} THEN 1 ELSE 0
       /\ files = IF g = {} THEN 1 ELSE 0
       /\ args_command = IF g = {} THEN "cmd" ELSE ""
  /\ DefaultsOnly
  /\ PlainDocker
  /\ AllServices
  /\ PlainRun
  /\ cfg_disabled = {}
  /\ cfg_shell = ""
  /\ fail_fast = FALSE
  /\ faulty = {"b1"}
  /\ failing_hook = NoHook
  /\ clash = ""
  /\ Start
  /\ Idle

Next ==
  \/ MainStart
  \/ PrepareDependencies
  \/ Toposort
  \/ RegisterSortedFeatures
  \/ BeforeLoad
  \/ BeforeLoadDone
  \/ Configure
  \/ ConfigureDone
  \/ Harvest
  \/ AfterLoad
  \/ AfterLoadDone
  \/ RegisterActionsInEventBus
  \/ HandleCommandLine
  \/ EmitPhase
  \/ CommandDone
  \/ CommandRestart
  \/ HandlerStart
  \/ HandlerEmit
  \/ HandlerReturn
  \/ HandlerRaise
  \/ EmitReturn
  \/ Reset
  \/ ConsoleScript
  \/ UncaughtException

Spec == Init /\ [][Next]_vars

SpecFeatures == InitFeatures /\ [][Next]_vars

(***************************************************************************)
(* Properties of register_features (specification SpecFeatures).           *)
(***************************************************************************)
\* The dependency graph as the inputs give it: an edge from a name to each
\* name it depends on, declared (required or optional) or configured.
DeclaredDeps(f) == {t.base : t \in feat_dependencies[f]}

ConfiguredDeps(n) == {e.dep : e \in {o \in cfg_dependencies : o.feat = n /\ o.dep # ""}}

GraphEdges ==
  {e \in Names \X Names :
     \/ e[1] \in Features /\ e[2] \in DeclaredDeps(e[1])
     \/ e[2] \in ConfiguredDeps(e[1])}

\* A set of edges has a cycle when some non-empty set of names has, from each
\* of its names, an edge to one of its names.
HasCycle(R) ==
  \E S \in SUBSET Names :
    /\ S # {}
    /\ \A n \in S : \E m \in S : <<n, m>> \in R

\* The edges that are not a name's dependency on itself.
ProperEdges == {e \in GraphEdges : e[1] # e[2]}

\* The required dependencies that no discovered feature has.
MissingRequired(f) ==
  {t.base : t \in {u \in feat_dependencies[f] : u.suffix = "" /\ u.base \notin Features}}

NoMissingRequired == \A f \in Features : MissingRequired(f) = {}

Position(seq, x) == CHOOSE i \in 1..Len(seq) : seq[i] = x

TraceOps == {trace[i].op : i \in 1..Len(trace)}

\* register_features has not ended yet.
Resolving == pc \in {"main", "register_features", "toposort", "register"}

\* C1: when the dependency graph is acyclic and no required dependency is
\* missing, register_features registers every feature, each strictly after
\* every feature it depends on, required or optional.
C1_DependenciesFirst ==
  (~Resolving /\ NoMissingRequired /\ ~HasCycle(GraphEdges)) =>
     /\ Range(features) = Features
     /\ \A f \in Features : \A t \in feat_dependencies[f] :
          t.base \in Features => Position(features, t.base) < Position(features, f)

\* C1 witness: a feature with a required dependency on a feature whose name
\* sorts after its own, which has an optional dependency on a present feature;
\* all are registered.
C1_Witness ==
  /\ ~Resolving
  /\ [base |-> "b", suffix |-> ""] \in feat_dependencies["a"]
  /\ [base |-> "c", suffix |-> OptionalSuffix] \in feat_dependencies["b"]
  /\ features = <<"c", "b", "a">>

\* C2: with a required dependency that no feature of the mapping has,
\* register_features raises a ValueError naming the feature and the missing
\* dependency before the sort runs: nothing is registered, no hook and no
\* action has run.
C2_MissingDependencyAborts ==
  ~NoMissingRequired =>
     /\ pc \in {"main", "register_features", "raised", "exited"}
     /\ TraceOps \subseteq {"check_missing"}
     /\ features = <<>>
     /\ sorted_feature_names = <<>>
     /\ \A k \in Range(HarvestKinds) : registry[k] = <<>>
     /\ \A e \in Events : bus[e] = <<>>
     /\ exceptions = <<>>
     /\ (pc \notin {"main", "register_features"} =>
           /\ error.type = "ValueError"
           /\ error.who \in Features
           /\ error.what \in MissingRequired(error.who))

\* C2 witness: the error for the missing dependency has been raised.
C2_Witness ==
  /\ pc = "raised"
  /\ error.type = "ValueError"
  /\ error.what = Absent
  /\ ~NoMissingRequired

\* What C3 promises once register_features has ended.
FailedBeforeRegistering ==
  /\ pc \in {"raised", "exited"}
  /\ error.type = "ValueError"
  /\ features = <<>>
  /\ TraceOps \subseteq {"check_missing", "toposort"}

\* C3 as stated: with a cycle in the dependency graph, register_features fails
\* with a ValueError, no feature is registered and no lifecycle hook is invoked.
C3_AnyCycleFails ==
  (~Resolving /\ HasCycle(GraphEdges)) => FailedBeforeRegistering

\* C3 amended: a cycle through two or more names makes register_features fail
\* with a ValueError, no feature registered and no lifecycle hook invoked; a
\* name's dependency on itself is ignored.
C3_ProperCycleFails ==
  (~Resolving /\ HasCycle(ProperEdges)) => FailedBeforeRegistering

\* C3 witness: the sort has raised for a cycle, no required dependency missing.
C3_Witness ==
  /\ HasCycle(ProperEdges)
  /\ NoMissingRequired
  /\ pc = "raised"
  /\ "toposort" \in TraceOps

(***************************************************************************)
(* Properties of the lifecycle, the bus and the exit (specification Spec). *)
(***************************************************************************)
\* The feature that declares an action, and the action's place among the
\* actions of that feature.
Owners(action) == {f \in Features : action \in Range(Declared("actions", f))}

\* The enabled one when two features declare the action and one is disabled.
Owner(action) ==
  CHOOSE f \in Owners(action) : disabled[f] => \A o \in Owners(action) : disabled[o]

DeclaredAt(action) == Position(Declared("actions", Owner(action)), action)

\* The entries of the history with a given operation, in order.
Entries(op) == SelectSeq(trace, LAMBDA r : r.op = op)

NamesOf(op) == [i \in 1..Len(Entries(op)) |-> Entries(op)[i].name]

\* The calls of the handlers of an event, in order.
CallsOf(event) == SelectSeq(trace, LAMBDA r : r.op = "call" /\ r.event = event)

\* The emissions of execute_command (not those of a handler), in order.
PhaseEmits == SelectSeq(trace, LAMBDA r : r.op = "emit" /\ r.name = "")

EventsOf(entries) == [i \in 1..Len(entries) |-> entries[i].event]

IsPrefix(s, t) == Len(s) <= Len(t) /\ SubSeq(t, 1, Len(s)) = s

CountIn(n, op) == Cardinality({i \in 1..n : trace[i].op = op})

\* After the first n entries of the history no emission and no handler is in
\* progress.
Quiet(n) ==
  /\ CountIn(n, "emit") = CountIn(n, "emitted")
  /\ CountIn(n, "call") = CountIn(n, "return") + CountIn(n, "raise")

\* The raises of handlers since main was called, in order.
Raised ==
  LET RECURSIVE Concat(_)
      Concat(ss) == IF ss = <<>> THEN <<>> ELSE Head(ss) \o Concat(Tail(ss))
  IN SelectSeq(Concat(executions) \o trace, LAMBDA r : r.op = "raise")

\* main has returned (or the process has ended after main returned) and a
\* command was executed.
CommandCompleted ==
  pc \in {"returned", "exited"} /\ error = NoError /\ args_command # ""

\* x comes before y: lower order first, then the feature registered first,
\* then the action declared first.
HandlerBefore(x, y) ==
  \/ ActionOrder[x] < ActionOrder[y]
  \/ /\ ActionOrder[x] = ActionOrder[y]
     /\ \/ Position(features, Owner(x)) < Position(features, Owner(y))
        \/ Owner(x) = Owner(y) /\ DeclaredAt(x) < DeclaredAt(y)

C5_PhasesInOrder ==
  /\ args_command \notin DOMAIN CommandPhases => PhaseEmits = <<>>
  /\ args_command \in DOMAIN CommandPhases =>
       IsPrefix(EventsOf(PhaseEmits), CommandPhases[args_command])
  /\ \A p \in 1..Len(trace) :
       (trace[p].op = "emit" /\ trace[p].name = "") => Quiet(p - 1)
  /\ CommandCompleted =>
       /\ EventsOf(PhaseEmits) = CommandPhases[args_command]
       /\ Quiet(Len(trace))

\* C5 witness: the command has completed, handlers have run in both phases.
C5_Witness ==
  /\ CommandCompleted
  /\ CallsOf("phase:x") # <<>>
  /\ CallsOf("phase:y") # <<>>

AllBefore(op1, op2) ==
  LET both == SelectSeq(trace, LAMBDA r : r.op \in {op1, op2})
  IN \A i, j \in 1..Len(both) : (both[i].op = op1 /\ both[j].op = op2) => i < j

\* C6: before_load of every registered feature, then configure of every
\* feature, then the harvest into the five registries, then after_load of the
\* enabled features; within each step in the order of registration.
C6_BreadthFirst ==
  /\ AllBefore("before_load", "configure")
  /\ AllBefore("configure", "harvest")
  /\ AllBefore("harvest", "after_load")
  /\ IsPrefix(NamesOf("before_load"), features)
  /\ IsPrefix(NamesOf("configure"), features)
  /\ IsPrefix(NamesOf("harvest"), HarvestKinds)
  /\ IsPrefix(NamesOf("after_load"), SelectSeq(features, LAMBDA f : ~disabled[f]))
  /\ "configure" \in TraceOps => NamesOf("before_load") = features
  /\ ("harvest" \in TraceOps \/ \E k \in Range(HarvestKinds) : registry[k] # <<>>) =>
       NamesOf("configure") = features
  /\ "after_load" \in TraceOps => NamesOf("harvest") = HarvestKinds

\* C6 witness: the load has ended with three features, two of them enabled.
C6_Witness ==
  /\ pc = "bind"
  /\ Len(NamesOf("configure")) = Cardinality(Features)
  /\ Len(NamesOf("after_load")) = Cardinality(Features) - 1

\* C7: an action is in the action registry only if its feature is enabled
\* and the action is not disabled once every feature is configured.
C7_OnlyEnabledActions ==
  \A a \in Range(registry["actions"]) :
    ~disabled[Owner(a)] /\ ~ActionDisabled(a, config_shell)

\* C7 witness: after the load, the actions of a disabled feature and a disabled
\* action of an enabled feature are left out, the other actions are registered.
C7_Witness ==
  /\ pc = "bind"
  /\ disabled["b"] /\ ~disabled["c"] /\ ~disabled["a"]
  /\ ActionDisabled("c1", config_shell)
  /\ Range(registry["actions"]) = {"a1", "c2"}

\* C8: without fail_fast every raise of a handler appends one error with its
\* invocation path (the phase first, the raising handler last) and nothing
\* propagates; every handler of every emission and every phase still runs.
C8_ErrorsCollected ==
  ~fail_fast =>
    /\ Len(exceptions) = Len(Raised)
    /\ \A k \in 1..Len(exceptions) :
         LET path == exceptions[k]
         IN /\ path # <<>>
            /\ path[Len(path)].action = Raised[k].name
            /\ path[Len(path)].event = Raised[k].event
            /\ path[1].event \in Range(CommandPhases[args_command])
    /\ error.type # "Exception"
    /\ CommandCompleted =>
         /\ EventsOf(PhaseEmits) = CommandPhases[args_command]
         /\ \A e \in Events :
              Len(CallsOf(e)) =
                Len(bus[e]) * Cardinality({i \in 1..Len(trace) :
                                             trace[i].op = "emit" /\ trace[i].event = e})

\* C8 witness: two handlers of phase:x have raised, the third has returned
\* and the next phase has run.
C8_Witness ==
  /\ ~fail_fast
  /\ CommandCompleted
  /\ Len(exceptions) = 2
  /\ \A k \in 1..Len(exceptions) : exceptions[k][1].event = "phase:x"
  /\ Len(CallsOf("phase:x")) = 3
  /\ CallsOf("phase:y") # <<>>

\* C9: with fail_fast the first raise of a handler ends the command: nothing
\* is invoked after it, no emission stays in progress, nothing is recorded
\* and the exception leaves main.
C9_FailFastAborts ==
  fail_fast =>
    /\ exceptions = <<>>
    /\ \A i \in 1..Len(trace) : trace[i].op = "raise" => i = Len(trace)
    /\ "raise" \in TraceOps =>
         /\ pc \in {"raised", "exited"}
         /\ stack = <<>>
         /\ error.type = "Exception"
         /\ error.who = trace[Len(trace)].name

\* C9 witness: a handler of the nested event has raised while a handler of
\* phase:x was running; the last handler of phase:x and the next phase have
\* not run.
C9_Witness ==
  /\ fail_fast
  /\ pc = "raised"
  /\ trace[Len(trace)].op = "raise"
  /\ trace[Len(trace)].event = WalkEvent
  /\ Len(CallsOf("phase:x")) < Len(bus["phase:x"])
  /\ Len(PhaseEmits) = 1

\* C10: when main returns, the exit status is 1 if the exception list is not
\* empty and 0 if it is empty.
C10_ExitStatus ==
  /\ pc # "exited" => exit_code = -1
  /\ (pc = "exited" /\ error = NoError) =>
       /\ exit_code \in {0, 1}
       /\ exit_code # 0 <=> exceptions # <<>>

\* C10 witness: a command has completed with a recorded error and status 1.
C10_Witness ==
  /\ pc = "exited"
  /\ CommandCompleted
  /\ exceptions # <<>>
  /\ exit_code = 1

(***************************************************************************)
(* Properties of the recorded errors, of the restart and of a failing load *)
(* (specification Spec).                                                   *)
(***************************************************************************)
\* C11: without fail_fast a raise is recorded once and logged once, whatever
\* the depth of the emission it happens in; the line lists the invocation path
\* outermost first, the phase event and its handler, then the nested event
\* and the handler that raised with the arguments of that event; with one
\* raise main returns a list of one exception and the exit status is 1.
C11_NestedErrorOnce ==
  ~fail_fast =>
    /\ Len(exceptions) = Len(Raised)
    /\ Len(log) = Len(Raised)
    /\ \A k \in 1..Len(log) :
         LET line == log[k]
             last == line[Len(line)]
         IN /\ last.action = Raised[k].name
            /\ last.event = Raised[k].event
            /\ line[1].event \in Range(CommandPhases[args_command])
            /\ Raised[k].event = WalkEvent =>
                 /\ Len(line) = 2
                 /\ line[1].action = WalkAction
                 /\ line[1].method = "execute"
                 /\ last.args \in 1..files
    /\ (pc = "exited" /\ error = NoError /\ Len(Raised) = 1) =>
         Len(exceptions) = 1 /\ exit_code = 1

\* C11 witness: the handler of the nested event has raised for the file the
\* walking handler of phase:x found, nothing else has raised, and the process
\* has ended with status 1.
C11_Witness ==
  /\ ~fail_fast
  /\ pc = "exited"
  /\ exit_code = 1
  /\ Len(exceptions) = 1
  /\ log = << <<[event |-> "phase:x", action |-> "b2", method |-> "execute", args |-> "parsed"],
              [event |-> "file:found", action |-> "c1", method |-> "render", args |-> 1]>> >>

\* The calls of the handlers of the phases in a part of the history.
PhaseCalls(history) ==
  SelectSeq(history, LAMBDA r : r.op = "call" /\ r.event # WalkEvent)

\* C12: handle_command_line catches the restart signal once: the first signal
\* makes it execute the command again with config.args replaced, a signal of
\* the second execution leaves main; the command is executed at most twice.
C12_RestartOnce ==
  /\ Len(executions) <= 1
  /\ attempt = Len(executions) + 1
  /\ (executions = <<>> /\ pc = "execute_command") => config_args = "parsed"
  /\ executions # <<>> =>
       /\ config_args = "restart"
       /\ \A i \in 1..Len(PhaseCalls(executions[1])) :
            PhaseCalls(executions[1])[i].args = "parsed"
       /\ \A i \in 1..Len(PhaseCalls(trace)) : PhaseCalls(trace)[i].args = "restart"
  /\ error.type = "RestartWithArgs" =>
       /\ pc \in {"raised", "exited"}
       /\ Len(executions) = 1
       /\ exit_code # 0

\* C12 witness: the second execution has run handlers with the new arguments
\* and has raised the signal again, which has left main.
C12_Witness ==
  /\ pc = "raised"
  /\ error.type = "RestartWithArgs"
  /\ Len(executions) = 1
  /\ PhaseCalls(executions[1]) # <<>>
  /\ PhaseCalls(trace) # <<>>

\* A step of load_registered_features has raised.
LoadFailed ==
  \/ error.type = "HookError"
  \/ error.type = "DuplicateNameError" /\ error.who \in Range(HarvestKinds)

\* The entry of the history for the step that has raised.
FailedStep ==
  IF error.type = "HookError" THEN Did(error.what, error.who, "")
  ELSE Did("harvest", error.who, "")

\* C13: a lifecycle step that raises ends the load: the error leaves
\* load_registered_features and main, the step that raised is the last step
\* invoked, no action is bound and nothing is emitted or called.
C13_LoadAborts ==
  /\ (\E i \in 1..Len(trace) :
        trace[i] = Did(failing_hook.step, failing_hook.feature, "")) => LoadFailed
  /\ (/\ clash # ""
      /\ ClashFeatures \subseteq Range(enabled_features)
      /\ \E i \in 1..Len(trace) : trace[i] = Did("harvest", clash, "")) => LoadFailed
  /\ LoadFailed =>
       /\ pc \in {"raised", "exited"}
       /\ trace[Len(trace)] = FailedStep
       /\ \A e \in Events : bus[e] = <<>>
       /\ TraceOps \cap {"bind", "emit", "call"} = {}
       /\ exceptions = <<>>
       /\ exit_code \in {-1, 1}

\* C13 witness: configure of the second feature has raised after configure of
\* the first one.
C13_Witness ==
  /\ pc = "raised"
  /\ error.type = "HookError"
  /\ error.what = "configure"
  /\ Len(NamesOf("configure")) = 2
  /\ registry = ClearedRegistry

(***************************************************************************)
(* Properties of a failing harvest and of reset (specification Spec).      *)
(***************************************************************************)
\* C14 as stated: when two enabled features contribute objects of one kind
\* with the same name, the harvest fails with a duplicate-name error before any
\* action executes, and none of the objects harvested during that load remains
\* registered in the phase, command, action, binary and service registries.
C14_DuplicateLeavesNothing ==
  (error.type = "DuplicateNameError" /\ error.who \in Range(HarvestKinds)) =>
     /\ TraceOps \cap {"bind", "emit", "call"} = {}
     /\ \A k \in Range(HarvestKinds) : registry[k] = <<>>

\* reset() has just returned.
JustReset == round > 0 /\ pc = "main"

\* C15 as stated: from any state it is called in, reset() leaves the feature,
\* phase, command, action, binary, service and cache registries empty, the bus
\* without handlers, and the context and the configuration in their initial
\* state.
C15_ResetRestoresInitialState ==
  JustReset =>
     /\ features = <<>>
     /\ registry = ClearedRegistry
     /\ caches = <<>>
     /\ \A e \in Events : bus[e] = <<>>
     /\ exceptions = <<>>
     /\ stack = <<>>
     /\ config_shell = ""
     /\ config_args = ""

\* What reset() works on: the registries, the bus, the caches, the context and
\* the configuration.
Engine ==
  <<features, registry, caches, cache_data, bus, exceptions, stack, config_shell,
    config_args, disabled>>

\* C16: reset() raises nothing, also when nothing was ever registered, and a
\* second reset() right after a first one changes nothing.
C16_ResetIdempotent ==
  [][round' = round + 1 =>
       /\ pc' = "main"
       /\ error' = NoError
       /\ JustReset => Engine' = Engine]_vars

\* C16 witness: a command has run, reset() was called and then called again.
C16_Witness ==
  /\ round = 2
  /\ pc = "main"
  /\ prev.pc = "main"
  /\ config_args = "parsed"

\* No handler is bound twice to an event.
NoHandlerTwice ==
  \A e \in Events : \A i, j \in 1..Len(bus[e]) : bus[e][i] = bus[e][j] => i = j

\* C17: after a run of main that has returned and a reset(), a second run with
\* the same configuration and features registers the features in the same
\* order, fills the registries alike and binds the same handlers in the same
\* order, none twice; its exception list holds the errors of its own handlers
\* only.
C17_SecondRunIdentical ==
  /\ (prev.pc = "returned" /\ "bind" \in TraceOps) =>
       /\ features = prev.features
       /\ registry = prev.registry
       /\ bus = prev.bus
       /\ NoHandlerTwice
  /\ (round > 0 /\ ~fail_fast) => Len(exceptions) = Len(Raised)
  /\ (round > 0 /\ fail_fast) => exceptions = <<>>

\* C17 witness: both runs have executed the command with three features and
\* three handlers of phase:x, and the second has returned without an error.
C17_Witness ==
  /\ prev.pc = "returned"
  /\ pc = "returned"
  /\ args_command = "cmd"
  /\ prev.features = <<"a", "c", "b">>
  /\ Len(bus["phase:x"]) = 3
  /\ exceptions = <<>>

(***************************************************************************)
(* Properties of emit and of the bindings (specification Spec).            *)
(***************************************************************************)
\* The emission that the entry at place q of the history ends: the last
\* emission of its event before q.
EmitOf(q) ==
  CHOOSE p \in 1..(q - 1) :
    /\ trace[p].op = "emit" /\ trace[p].event = trace[q].event
    /\ \A r \in (p + 1)..(q - 1) :
         ~(trace[r].op = "emit" /\ trace[r].event = trace[q].event)

\* The entries of given operations for an event between two places of the
\* history.
Between(p, q, ops, event) ==
  SelectSeq(SubSeq(trace, p + 1, q - 1), LAMBDA r : r.op \in ops /\ r.event = event)

\* C18: an emission calls every handler bound to its event once, in the order
\* they were bound, with the arguments of the emission, and returns their
\* values in that order (none for an event without handlers); a command
\* whose phases have no handler ends with status 0.
C18_EmitCallsAllInOrder ==
  /\ \A q \in 1..Len(trace) :
       trace[q].op = "emitted" =>
         LET e == trace[q].event
             p == EmitOf(q)
             calls == Between(p, q, {"call"}, e)
             outcomes == Between(p, q, {"return", "raise"}, e)
             results == trace[q].results
         IN /\ trace[q].args = trace[p].args
            /\ Len(calls) = Len(bus[e])
            /\ Len(outcomes) = Len(bus[e])
            /\ Len(results) = Len(bus[e])
            /\ \A i \in 1..Len(bus[e]) :
                 /\ calls[i].name = bus[e][i].action
                 /\ calls[i].method = bus[e][i].method
                 /\ calls[i].args = trace[p].args
                 /\ results[i] = IF outcomes[i].op = "return"
                                 THEN ReturnValue(bus[e][i], trace[p].args)
                                 ELSE NoneValue
  /\ (/\ pc = "exited"
      /\ error = NoError
      /\ args_command # ""
      /\ \A i \in 1..Len(CommandPhases[args_command]) :
           bus[CommandPhases[args_command][i]] = <<>>) => exit_code = 0

\* C18 witness: the command of one phase has ended with status 0, its event
\* without a handler and its emission with no value.
C18_Witness ==
  /\ pc = "exited"
  /\ exit_code = 0
  /\ args_command = "one"
  /\ bus["phase:y"] = <<>>
  /\ trace[Len(trace)] = [op |-> "emitted", name |-> "", event |-> "phase:y",
                          args |-> "parsed", results |-> <<>>]

\* event_bindings given as a sequence, a str as the sequence of that one name.
ListForm(eb) ==
  IF eb.shape = "str"
  THEN [shape |-> "list", items |-> <<[event |-> eb.event, method |-> ""]>>]
  ELSE eb

RECURSIVE ListFormRunners(_, _)
\* The runners of the actions with every event_bindings in its list form.
ListFormRunners(sorted, policy) ==
  IF sorted = <<>> THEN <<>>
  ELSE RunnersFor(Head(sorted), ListForm(EventBindings[Head(sorted)]), policy)
         \o ListFormRunners(Tail(sorted), policy)

\* register_actions_in_event_bus has returned and main has not.
Bound == pc \in {"command_line", "execute_command"}

\* C19: for every action and event, event_bindings given as the str E binds
\* what the one-element sequence [E] binds: one handler of E that calls
\* execute; the bus is the one the list forms of the bindings give.
C19_StrAsList ==
  /\ \A a \in Actions : \A e \in Events : \A p \in BOOLEAN :
       /\ RunnersFor(a, [shape |-> "str", event |-> e], p)
            = RunnersFor(a, ListForm([shape |-> "str", event |-> e]), p)
       /\ RunnersFor(a, [shape |-> "str", event |-> e], p)
            = <<[action |-> a, event |-> e, method |-> "execute", fail_fast |-> p]>>
  /\ Bound =>
       bus = BusOn(ClearedBus, ListFormRunners(SortedActions(registry["actions"]), fail_fast))

\* C19 witness: the action with a str binding is bound and its execute has
\* been called for its event.
C19_Witness ==
  /\ EventBindings["a1"].shape = "str"
  /\ "a1" \in Range(registry["actions"])
  /\ \E i \in 1..Len(trace) :
       /\ trace[i].op = "call"
       /\ trace[i].name = "a1"
       /\ trace[i].event = "phase:x"
       /\ trace[i].method = "execute"

\* The bindings an action declares, as (event, method) pairs, the method of
\* a bare event name being execute.
DeclaredBindings(action) ==
  LET eb == EventBindings[action]
  IN IF eb.shape = "str" THEN <<[event |-> eb.event, method |-> "execute"]>>
     ELSE [i \in 1..Len(eb.items) |->
             [event |-> eb.items[i].event,
              method |-> IF eb.items[i].method = "" THEN "execute"
                         ELSE eb.items[i].method]]

\* The handlers of an action on the bus, as (event, method) pairs.
BoundPairs(action) ==
  UNION {{[event |-> e, method |-> bus[e][i].method] :
            i \in {j \in 1..Len(bus[e]) : bus[e][j].action = action}} : e \in Events}

HandlersOf(action) ==
  {<<e, i>> \in Events \X (1..Cardinality(Actions)) :
     i <= Len(bus[e]) /\ bus[e][i].action = action}

\* C20: once the actions are bound, a registered action has one handler for
\* each binding it declares, on the event of the binding; the handler of an
\* (event, method) pair calls the method named and no other, the handler of a
\* bare event name calls execute.
C20_MethodOfBinding ==
  /\ Bound =>
       \A a \in Actions :
         IF a \in Range(registry["actions"])
         THEN /\ BoundPairs(a) = Range(DeclaredBindings(a))
              /\ Cardinality(HandlersOf(a)) = Len(DeclaredBindings(a))
         ELSE HandlersOf(a) = {}
  /\ \A i \in 1..Len(trace) :
       trace[i].op = "call" =>
         [event |-> trace[i].event, method |-> trace[i].method]
           \in Range(DeclaredBindings(trace[i].name))

\* C20 witness: the method named by a pair has been called for its event, and
\* an action with two bindings has a handler on each of its events.
C20_Witness ==
  /\ \E i \in 1..Len(trace) :
       /\ trace[i].op = "call"
       /\ trace[i].name = "c1"
       /\ trace[i].event = "file:found"
       /\ trace[i].method = "render"
  /\ \E i \in 1..Len(bus["phase:x"]) : bus["phase:x"][i].action = "b1"
  /\ \E i \in 1..Len(bus["phase:y"]) : bus["phase:y"][i].action = "b1"

(***************************************************************************)
(* Properties of optional dependencies and of the configured map           *)
(* (specification SpecFeatures).                                           *)
(***************************************************************************)
\* The feature declares an optional dependency on the name no feature has.
OptionalAbsent(f) == [base |-> Absent, suffix |-> OptionalSuffix] \in feat_dependencies[f]

\* The dependencies that remain when the optional dependencies on the absent
\* name are left out.
RemainingEdges ==
  {e \in ProperEdges :
     \/ e[2] \in ConfiguredDeps(e[1])
     \/ /\ e[1] \in Features
        /\ \E t \in feat_dependencies[e[1]] :
             t.base = e[2] /\ ~(t.base = Absent /\ t.suffix = OptionalSuffix)}

\* What C21 promises: no error, every feature registered, the absent name not,
\* and each feature after the features it still depends on.
OptionalDropped ==
  /\ error = NoError
  /\ Range(features) = Features
  /\ Absent \notin Range(features)
  /\ \A e \in RemainingEdges :
       (e[1] \in Features /\ e[2] \in Features) =>
          Position(features, e[2]) < Position(features, e[1])

AbsentKey == \E o \in cfg_dependencies : o.feat = Absent

\* A feature depends on the name no feature has.
DependsOnAbsent == \E f \in Features : <<f, Absent>> \in GraphEdges

\* What register_features registers when the key of the absent name is taken
\* out of the configured map.
WithoutAbsentKey ==
  FeaturesToRegister(
    ToposortFlatten(
      MergeDependencies(PrepareToposortData(feat_dependencies),
                        {o \in cfg_dependencies : o.feat # Absent})).result)

\* The key is a node of the sorted graph, nothing fails, the key is not
\* registered and every feature is, after the features it depends on.
AbsentKeySorted ==
  /\ error = NoError
  /\ Absent \in DOMAIN toposort_data
  /\ Absent \in Range(sorted_feature_names)
  /\ Range(features) = Features
  /\ \A e \in ProperEdges :
       (e[1] \in Features /\ e[2] \in Features) =>
          Position(features, e[2]) < Position(features, e[1])

Registered == ~Resolving /\ features # <<>>

\* C23: when entry points load features named like a default feature, one
\* feature is registered under that name, it is the instance of the last
\* entry point that loads the name, and the feature registry raises no
\* duplicate-name error.
C23_ExternalReplacesBuiltIn ==
  /\ ~(error.type = "DuplicateNameError" /\ error.who = "features")
  /\ Registered =>
       \A n \in Range(entry_points) :
         /\ Cardinality({i \in 1..Len(features) : features[i] = n}) = 1
         /\ feature_origin[n] # BuiltIn
         /\ entry_points[feature_origin[n]] = n
         /\ \A j \in 1..Len(entry_points) :
              j > feature_origin[n] => entry_points[j] # n

\* C23 witness: two entry points have loaded a feature named b; the features
\* are registered, b from the second entry point, a from the defaults.
C23_Witness ==
  /\ Registered
  /\ entry_points = <<"b", "b">>
  /\ feature_origin["b"] = 2
  /\ feature_origin["a"] = BuiltIn
  /\ Range(features) = Features

RECURSIVE DepthIn(_, _)
\* The length of the longest chain of edges that starts at a name, in a set
\* of edges without cycle.
DepthIn(edges, n) ==
  LET deps == {e[2] : e \in {d \in edges : d[1] = n}}
      RECURSIVE Highest(_)
      Highest(S) ==
        IF S = {} THEN 0
        ELSE LET d == CHOOSE x \in S : TRUE
                 rest == Highest(S \ {d})
                 below == DepthIn(edges, d) + 1
             IN IF below > rest THEN below ELSE rest
  IN Highest(deps)

\* The length of the longest chain of dependencies that starts at a name.
Depth(n) == DepthIn(ProperEdges, n)

RECURSIVE DependsOn(_, _, _)
\* f depends on g through a chain of at most k dependencies.
DependsOn(f, g, k) ==
  /\ k > 0
  /\ \/ <<f, g>> \in ProperEdges
     \/ \E m \in Names : <<f, m>> \in ProperEdges /\ DependsOn(m, g, k - 1)

Ordered(f, g) ==
  DependsOn(f, g, Cardinality(Names)) \/ DependsOn(g, f, Cardinality(Names))

\* The handlers of each event are bound and called in the order that the
\* action orders and the registration order of the features give.
HandlersFollowFeatures ==
  \A e \in Events :
    LET calls == CallsOf(e)
    IN /\ \A i, j \in 1..Len(bus[e]) :
            i < j => HandlerBefore(bus[e][i].action, bus[e][j].action)
       /\ \A k \in 1..Len(calls) :
            calls[k].name = bus[e][((k - 1) % Len(bus[e])) + 1].action

\* C24 as stated: the registration order is fixed by the features, the
\* dependencies and the configured map alone, whatever the order the features
\* were given in: a feature comes after the features it depends on, features
\* that no dependency orders come in alphabetical order; the handler order of
\* each event follows from it.
C24_AlphabeticalUnlessOrdered ==
  Registered =>
    /\ \A f, g \in Range(features) :
         /\ DependsOn(f, g, Cardinality(Names)) =>
              Position(features, g) < Position(features, f)
         /\ (~Ordered(f, g) /\ NameRank[f] < NameRank[g]) =>
              Position(features, f) < Position(features, g)
    /\ HandlersFollowFeatures

\* C24 amended: the same, the alphabetical order holding among the features
\* of one level of the sort (the features whose longest chain of dependencies
\* has the same length); a feature of a lower level comes first.
C24_AlphabeticalWithinLevel ==
  Registered =>
    /\ LET edges == ProperEdges
       IN \A i, j \in 1..Len(features) :
            i < j =>
              LET first == DepthIn(edges, features[i])
                  second == DepthIn(edges, features[j])
              IN \/ first < second
                 \/ first = second /\ NameRank[features[i]] < NameRank[features[j]]
    /\ HandlersFollowFeatures

\* C24 witness: the features are given in the order b, c, a and b depends on
\* a; a, c, b are registered and the handlers of phase:x have run in the order
\* of the features.
C24_Witness ==
  /\ default_features = <<"b", "c", "a">>
  /\ [base |-> "a", suffix |-> ""] \in feat_dependencies["b"]
  /\ features = <<"a", "c", "b">>
  /\ [i \in 1..Len(CallsOf("phase:x")) |-> CallsOf("phase:x")[i].name] = <<"a1", "b2", "b1">>

(***************************************************************************)
(* Properties of nested emissions (specification Spec).                    *)
(***************************************************************************)
\* The last of the first n entries of the history that emits the event, 0 if
\* none does.
LastEmit(event, n) ==
  LET emits == {p \in 1..n : trace[p].op = "emit" /\ trace[p].event = event}
  IN IF emits = {} THEN 0 ELSE CHOOSE p \in emits : \A q \in emits : q <= p

\* The innermost emission in progress after the first n entries of the
\* history, 0 if none is.
OpenEmission(n) ==
  LET open == {p \in 1..n :
                 /\ trace[p].op = "emit"
                 /\ \A q \in (p + 1)..n :
                      ~(trace[q].op = "emitted" /\ trace[q].event = trace[p].event)}
  IN IF open = {} THEN 0 ELSE CHOOSE p \in open : \A q \in open : q <= p

\* The entries p..n of the history with one of the operations, for the event.
CountBetween(p, n, ops, event) ==
  Cardinality({k \in p..n : trace[k].op \in ops /\ trace[k].event = event})

\* C25: emissions nest. Every emission below the innermost one waits in a
\* running handler, so one chain of calls is in progress and no two handlers
\* run side by side; what a handler does belongs to the innermost emission in
\* progress; an emission returns when every handler of its event has been
\* called and has ended; a handler emits while it runs, and after its emission
\* has returned it is the emitting handler that goes on.
C25_DepthFirst ==
  /\ \A k \in 1..(Len(stack) - 1) : stack[k].running
  /\ LET n == Len(trace)
         last == trace[n]
     IN n > 1 =>
          /\ last.op \in {"call", "return", "raise"} =>
               /\ OpenEmission(n) # 0
               /\ last.event = trace[OpenEmission(n)].event
          /\ last.op = "emitted" =>
               LET p == LastEmit(last.event, n)
               IN /\ p # 0
                  /\ CountBetween(p, n, {"call"}, last.event) = Len(bus[last.event])
                  /\ CountBetween(p, n, {"return", "raise"}, last.event)
                       = Len(bus[last.event])
          /\ (last.op = "emit" /\ last.name # "") =>
               /\ trace[n - 1].op \in {"call", "emitted"}
               /\ trace[n - 1].op = "call" => trace[n - 1].name = last.name
          /\ trace[n - 1].op = "emitted" =>
               LET emitter == trace[LastEmit(trace[n - 1].event, n - 1)].name
               IN emitter # "" =>
                    /\ last.op \in {"emit", "return", "raise"}
                    /\ last.name = emitter

\* C25 witness: the walking handler has emitted the event of a file while it
\* ran for phase:x, the two handlers of that event have run, the emission has
\* returned, the walking handler has returned and the next handler of phase:x
\* has been called.
C25_Witness ==
  \E i, j \in 1..Len(trace) :
    /\ i < j
    /\ trace[i].op = "emit" /\ trace[i].name = WalkAction
    /\ CountBetween(i, j, {"return"}, WalkEvent) = 2
    /\ trace[j].op = "emitted" /\ trace[j].event = WalkEvent
    /\ j + 2 <= Len(trace)
    /\ trace[j + 1].op = "return" /\ trace[j + 1].name = WalkAction
    /\ trace[j + 2].op = "call" /\ trace[j + 2].name = "b1"


(***************************************************************************)
(* Properties of the configuration of the docker feature (specification    *)
(* Spec).                                                                  *)
(***************************************************************************)
\* No ip address can be derived: none is configured, DOCKER_HOST holds no
\* IPv4 address and the network interface is invalid or has no IPv4 address.
CannotDeriveIp ==
  /\ docker_env.ip = NoIp
  /\ docker_env.host # "tcp"
  /\ docker_env.interface # "ipv4"

\* configure has been invoked on the docker feature.
DockerConfigured ==
  \E i \in 1..Len(trace) : trace[i] = Did("configure", DockerFeature, "")

\* C27: when the docker feature can derive no ip address, its configure raises
\* an auto-configure error naming the feature, which ends the load at that step:
\* no object is harvested, no action is bound or run, and the resolved
\* configuration of the feature is not written to the configuration store.
C27_AutoConfigureFailureAborts ==
  CannotDeriveIp =>
     /\ ~config_docker.resolved
     /\ config_docker.ip = NoIp
     /\ TraceOps \cap {"harvest", "after_load", "bind", "emit", "call"} = {}
     /\ \A e \in Events : bus[e] = <<>>
     /\ \A k \in Range(HarvestKinds) : registry[k] = <<>>
     /\ DockerConfigured =>
          /\ pc \in {"raised", "exited"}
          /\ error.type = "FeatureConfigurationAutoConfigureError"
          /\ error.who = DockerFeature
          /\ trace[Len(trace)] = Did("configure", DockerFeature, "")
          /\ exit_code \in {-1, 1}

\* C27 witness: DOCKER_HOST names a socket and the interface has no IPv4
\* address; configure of the docker feature has raised after configure of
\* another feature, and main has let the error out.
C27_Witness ==
  /\ docker_env = [ip |-> NoIp, host |-> "unix", interface |-> "no_ipv4"]
  /\ pc = "exited"
  /\ error = AutoConfigureError(DockerFeature, "Can't get ip address")
  /\ Len(NamesOf("configure")) >= 2
  /\ ~config_docker.resolved


(***************************************************************************)
(* Properties of the registries (specification Spec).                      *)
(***************************************************************************)
\* No name occurs twice in a registry.
UniqueNames(reg) == \A i, j \in 1..Len(reg) : reg[i] = reg[j] => i = j

\* The registry a duplicate-name error comes from.
RefusingRegistry ==
  IF error.who = "features" THEN features
  ELSE IF error.who = "caches" THEN caches
  ELSE registry[error.who]

\* C26: no registry holds two objects of one name; a register call refused
\* with a duplicate-name error has left its registry as it was: the registry
\* holds the refused name once, and a registry filled during the load holds
\* the objects offered before the refused one and nothing else.
C26_UniqueNames ==
  /\ UniqueNames(features)
  /\ UniqueNames(caches)
  /\ \A k \in Range(HarvestKinds) : UniqueNames(registry[k])
  /\ error.type = "DuplicateNameError" =>
       /\ pc \in {"raised", "exited"}
       /\ Cardinality({i \in 1..Len(RefusingRegistry) :
                         RefusingRegistry[i] = error.what}) = 1
       /\ error.who \in Range(HarvestKinds) =>
            IsPrefix(registry[error.who] \o <<error.what>>,
                     AllObjects(error.who, enabled_features))

\* C26 witness: the second object named like an object that the registry
\* holds has been refused; the registry holds the objects registered before.
C26_Witness ==
  /\ pc = "raised"
  /\ error.type = "DuplicateNameError"
  /\ error.who \in Range(HarvestKinds)
  /\ error.what = ClashName
  /\ Len(registry[error.who]) >= 2
  /\ ClashName \in Range(registry[error.who])


(***************************************************************************)
(* Properties of the bindings with a processor (specification Spec).       *)
(***************************************************************************)
\* The method called at the k-th entry of the history has raised: the next
\* entry of its action and event is a raise.
RaisedAfter(k) ==
  /\ k < Len(trace)
  /\ trace[k + 1].op = "raise"
  /\ trace[k + 1].name = trace[k].name
  /\ trace[k + 1].event = trace[k].event

C28_Chained ==
  /\ pc = "returned"
  /\ \E k \in 1..Len(trace) :
       /\ trace[k].op = "call"
       /\ trace[k].name = ProcessedAction
       /\ trace[k].passed.invoked
       /\ trace[k].passed.args.kwargs = <<"service", 1>>


(***************************************************************************)
(* Properties of the hooks of the features (specification Spec).           *)
(***************************************************************************)
\* The number of times a hook has been invoked on a feature.
Invocations(hook, f) ==
  Cardinality({i \in 1..Len(trace) : trace[i].op = hook /\ trace[i].name = f})

\* load_registered_features has returned.
Loaded == pc = "bind" \/ "bind" \in TraceOps

\* The registered features that are not disabled.
NotDisabled == SelectSeq(features, LAMBDA f : ~disabled[f])

\* C29: once the load has returned, before_load and configure have been
\* invoked once on every registered feature, disabled or not, after_load once
\* on every enabled feature and never on a disabled one, and the registries and
\* the bus hold what the enabled features contribute and nothing of a disabled
\* feature; no hook is ever invoked twice on a feature during a load.
C29_HooksOnce ==
  /\ \A f \in Features :
       /\ Invocations("before_load", f) <= 1
       /\ Invocations("configure", f) <= 1
       /\ Invocations("after_load", f) <= 1
       /\ Invocations("after_load", f) = 1 => (f \in Range(features) /\ ~disabled[f])
  /\ Loaded =>
       /\ \A f \in Range(features) :
            /\ disabled[f] = (f \in cfg_disabled)
            /\ Invocations("before_load", f) = 1
            /\ Invocations("configure", f) = 1
            /\ Invocations("after_load", f) = (IF disabled[f] THEN 0 ELSE 1)
       /\ \A k \in Range(HarvestKinds) : registry[k] = AllObjects(k, NotDisabled)
       /\ \A e \in Events : \A i \in 1..Len(bus[e]) :
            \E f \in Owners(bus[e][i].action) : f \in Range(features) /\ ~disabled[f]

\* C29 witness: the load has returned with a disabled feature that declares
\* actions and a binary; its before_load and configure have been invoked, its
\* after_load has not, and another feature is enabled.
C29_Witness ==
  /\ Loaded
  /\ "b" \in Range(features)
  /\ disabled["b"]
  /\ ~disabled["c"]
  /\ Invocations("before_load", "b") = 1
  /\ Invocations("configure", "b") = 1
  /\ Invocations("after_load", "b") = 0
  /\ Invocations("after_load", "c") = 1
  /\ registry["binaries"] = <<>>


(***************************************************************************)
(* Properties of the caches at reset (specification Spec).                 *)
(***************************************************************************)
\* C30: reset() has called clear() and then flush() on each cache that was
\* registered when it was called, on those caches only and before it emptied
\* the cache registry: when reset() has returned no cache that was registered
\* holds an entry and the registry is empty.
C30_CachesClearedThenFlushed ==
  round > 0 =>
     /\ Len(cache_calls) = 2 * Len(prev.caches)
     /\ \A i \in 1..Len(prev.caches) :
          /\ cache_calls[2 * i - 1] = [op |-> "clear", cache |-> prev.caches[i]]
          /\ cache_calls[2 * i] = [op |-> "flush", cache |-> prev.caches[i]]
     /\ JustReset =>
          /\ caches = <<>>
          /\ cache_data = prev.cache_data \ Range(prev.caches)

\* C30 witness: reset() has returned; it was called after a command that
\* stored an entry in a cache, with the four default caches registered.
C30_Witness ==
  /\ JustReset
  /\ prev.caches = DefaultCaches
  /\ CachingCache \in prev.cache_data
  /\ Len(cache_calls) = 8
  /\ cache_data = {}
  /\ caches = <<>>

(***************************************************************************)
(* Properties of the command line (specification Spec).                    *)
(***************************************************************************)
\* The level the flags stand for: very-verbose before verbose before silent.
LevelOfFlags ==
  IF args_flags = NoFlags THEN "INFO"
  ELSE IF args_flags.very_verbose THEN "DEBUG"
  ELSE IF args_flags.verbose THEN "VERBOSE"
  ELSE "CRITICAL"

\* C31: the level of the logger is the level the three flags stand for, and
\* nothing else sets it; it is set when the command is executed or the help
\* printed, before any event of the command is emitted.
C31_LogLevelOfFlags ==
  /\ log_level \in {"", LevelOfFlags}
  /\ (pc = "execute_command" \/ TraceOps \cap {"emit", "call"} # {}) =>
       log_level = LevelOfFlags
  /\ (pc = "returned" /\ round = 0) => log_level = LevelOfFlags

\* C31 witness: verbose and silent are both set; the command has run at the
\* level VERBOSE.
C31_Witness ==
  /\ args_flags = [verbose |-> TRUE, very_verbose |-> FALSE, silent |-> TRUE]
  /\ log_level = "VERBOSE"
  /\ pc = "returned"
  /\ "call" \in TraceOps

(***************************************************************************)
(* C34: the dependencies of the configured map (specification              *)
(* SpecFeatures).                                                          *)
(***************************************************************************)
\* The edges that only the configured map gives, to the name no feature has.
OverrideEdgesToAbsent ==
  {e \in ProperEdges :
     /\ e[1] \in Features
     /\ e[2] = Absent
     /\ Absent \in ConfiguredDeps(e[1])
     /\ Absent \notin DeclaredDeps(e[1])}

\* What C34 promises: a feature that the map makes depend on another feature
\* is registered after it, and a feature that the map makes depend on the
\* name no feature has is registered, nothing raised.
OverridesMerged ==
  /\ \A f \in Features : \A g \in ConfiguredDeps(f) \cap Features :
       f # g =>
         /\ {f, g} \subseteq Range(features)
         /\ Position(features, g) < Position(features, f)
  /\ \A f \in Features :
       Absent \in ConfiguredDeps(f) => error = NoError /\ f \in Range(features)

\* C34 as stated: the dependencies of the configured map are ordering edges
\* (F is registered after a present G), and one that names a feature that
\* does not exist never raises and does not keep F from being registered;
\* no required dependency is missing and the other edges have no cycle.
C34_OverrideNeverRaises ==
  (/\ ~Resolving
   /\ NoMissingRequired
   /\ ~HasCycle(ProperEdges \ OverrideEdgesToAbsent)) => OverridesMerged

\* C34 amended: the same when the edges to the missing name close no cycle
\* either (the map may give the missing name, as a key, a dependency that
\* leads back to F).
C34_OverrideEdgesMerged ==
  (~Resolving /\ NoMissingRequired /\ ~HasCycle(ProperEdges)) => OverridesMerged

\* C34 witness: the map makes a depend on b and on the missing name; b, c, a
\* are registered.
C34_Witness ==
  /\ ~Resolving
  /\ ConfiguredDeps("a") = {"b", Absent}
  /\ \A f \in Features : feat_dependencies[f] = {}
  /\ error = NoError
  /\ features = <<"b", "c", "a">>

(***************************************************************************)
(* C35: what a restart keeps (specification Spec).                         *)
(***************************************************************************)
\* The handlers raised in a part of the history.
Raises(history) == SelectSeq(history, LAMBDA r : r.op = "raise")

\* A restart has been caught and the second execution has returned.
RestartedAndReturned ==
  /\ executions # <<>>
  /\ pc \in {"returned", "exited"}
  /\ error = NoError

\* The second execution starts with the first phase and the new arguments,
\* calls again every handler the first execution called, and the exceptions
\* of both executions are in the list.
ExecutedAgain ==
  /\ executions # <<>> =>
       /\ config_unknown_args = UnknownArgs
       /\ Len(exceptions) >= Len(Raises(executions[1]))
       /\ Len(trace) > Len(Startup(trace)) =>
            trace[Len(Startup(trace)) + 1] =
              DidEmit("", CommandPhases[args_command][1], "restart")
  /\ RestartedAndReturned =>
       /\ \A i \in 1..Len(PhaseCalls(executions[1])) :
            \E j \in 1..Len(PhaseCalls(trace)) :
              /\ PhaseCalls(trace)[j].name = PhaseCalls(executions[1])[i].name
              /\ PhaseCalls(trace)[j].event = PhaseCalls(executions[1])[i].event
              /\ PhaseCalls(trace)[j].args = "restart"
       /\ Len(exceptions) = Len(Raises(executions[1])) + Len(Raises(trace))

\* The step that catches the restart: nothing is rolled back.
RestartKeeps ==
  Len(executions') = Len(executions) + 1 =>
    /\ pc' = "execute_command"
    /\ phase_idx' = 0
    /\ config_args' = "restart"
    /\ config_unknown_args' = config_unknown_args
    /\ exceptions' = exceptions
    /\ log' = log
    /\ cache_data' = cache_data
    /\ bus' = bus
    /\ registry' = registry

\* C35: on a restart the same command is executed again from its first phase
\* with the substituted arguments; what the handlers of the first execution
\* have done is not rolled back (the caches, the bus and the registries are
\* as they were), those handlers run again, the entries of the exception
\* list are kept and config.unknown_args is left as the first parse set it.
C35_RestartKeepsEffects == [][RestartKeeps /\ ExecutedAgain']_vars

\* C35 witness: both executions have called handlers, one has raised in each,
\* and the second execution has returned.
C35_Witness ==
  /\ RestartedAndReturned
  /\ Raises(executions[1]) # <<>>
  /\ Raises(trace) # <<>>
  /\ Len(exceptions) = 2
  /\ config_args = "restart"
  /\ config_unknown_args = UnknownArgs

(***************************************************************************)
(* The functions called on their own: main is not running, its state is    *)
(* the one it is called in.                                                *)
(***************************************************************************)
\* main has not been called and is given a plain command line.
NotRunning ==
  /\ DefaultsOnly
  /\ Undisturbed
  /\ cfg_dependencies = {}
  /\ feat_dependencies = [f \in Features |-> {}]
  /\ cfg_disabled = {}
  /\ cfg_shell = ""
  /\ fail_fast = FALSE
  /\ faulty = {}
  /\ files = 0
  /\ args_command = ""
  /\ Start

\* A configured value.
Leaf == Str(<<"v">>)

\* The elements of the configured lists: a value, or a dict with one key.
Elements == {Leaf, Dict(<<Entry(<<"b">>, Leaf)>>)}

\* The configurations of the feature: none, or key 'a' holding a value, a
\* dict or a list, with or without a key 'a_b' beside it.
FeatureConfigs ==
  LET values == Elements \cup {List(s) : s \in SeqsUpTo(Elements, MaxItems)}
  IN {Dict(<<>>)}
     \cup {Dict(<<Entry(<<"a">>, v)>>) : v \in values}
     \cup {Dict(<<Entry(<<"a">>, v), Entry(<<"a", "_", "b">>, Leaf)>>) : v \in values}

\* A segment of a configuration path: the key of a dict, or the index of a list.
Key(name) == [name |-> name, index |-> -1]
Index(i) == [name |-> <<>>, index |-> i]

RECURSIVE PathsOf(_)
\* The configuration paths of data, the empty path (data itself) included.
PathsOf(data) ==
  {<<>>} \cup
  IF data.kind = "dict"
  THEN UNION {{<<Key(data.items[i].name)>> \o p : p \in PathsOf(data.items[i].value)} :
                i \in 1..Len(data.items)}
  ELSE IF data.kind = "list"
  THEN UNION {{<<Index(i - 1)>> \o p : p \in PathsOf(data.items[i])} :
                i \in 1..Len(data.items)}
  ELSE {}

\* What a path that leads nowhere holds.
Missing == [kind |-> "missing", text |-> <<>>, items |-> <<>>]

RECURSIVE ValueAt(_, _)
\* The value data holds at path.
ValueAt(data, path) ==
  IF path = <<>> THEN data
  ELSE LET seg == Head(path)
       IN IF data.kind = "dict" /\ seg.index = -1
             /\ \E i \in 1..Len(data.items) : data.items[i].name = seg.name
          THEN ValueAt(data.items[CHOOSE i \in 1..Len(data.items) :
                                     data.items[i].name = seg.name].value, Tail(path))
          ELSE IF data.kind = "list" /\ seg.index >= 0 /\ seg.index < Len(data.items)
          THEN ValueAt(data.items[seg.index + 1], Tail(path))
          ELSE Missing

RECURSIVE VariableName(_)
\* The variable of a path under the feature key: DDB_OVERRIDE_<FEATURE>, then
\* '_' and the upper-cased key for each key of the path, '[i]' for each index.
VariableName(path) ==
  IF path = <<>> THEN Upper(FeaturePrefix(FeatureKey))
  ELSE LET seg == path[Len(path)]
           parent == VariableName(SubSeq(path, 1, Len(path) - 1))
       IN IF seg.index = -1 THEN parent \o <<"_">> \o Upper(seg.name)
          ELSE parent \o <<"[">> \o StrOfIndex(seg.index) \o <<"]">>

\* The variables of the paths of the configurations.
VariableNames == UNION {{VariableName(p) : p \in PathsOf(c)} : c \in FeatureConfigs}

\* The value given to a variable: it tells the variables apart.
ValueOf(name) == <<"=">> \o name

\* The environments: at most MaxVars variables are set, empty or not.
InitOverrides ==
  /\ unit = "overrides"
  /\ IdleFixuid
  /\ IdleShell
  /\ raw_feature_config \in FeatureConfigs
  /\ feature_config = Dict(<<>>)
  /\ \E set \in SetsUpTo(VariableNames, MaxVars) : \E empty \in SUBSET set :
       environ = [n \in set |-> IF n \in empty THEN <<>> ELSE ValueOf(n)]

\* sanitize_and_validate, line 148: the overrides of the feature's key applied.
SanitizeAndValidate ==
  /\ unit = "overrides"
  /\ unit' = "overridden"
  /\ feature_config' = ApplyEnvironOverrides(environ, raw_feature_config,
                                             FeaturePrefix(FeatureKey))
  /\ UNCHANGED <<program, environ, raw_feature_config, fixuid, shell>>

(***************************************************************************)
(* C32: environment overrides.                                             *)
(***************************************************************************)
\* The prefixes of path (path included) whose variable is set and not empty.
Overriding(path) ==
  {k \in 0..Len(path) : EnvironGet(environ, VariableName(SubSeq(path, 1, k))) # <<>>}

\* What the claim requires of the resolved configuration at a path of the
\* configured one: below the shortest prefix whose variable is set and not
\* empty, that variable's value; with no such prefix, the configured value
\* (for a dict or a list: its kind and its number of items).
OverriddenAt(path) ==
  LET over == Overriding(path)
      raw == ValueAt(raw_feature_config, path)
      resolved == ValueAt(feature_config, path)
  IN IF over # {}
     THEN LET k == CHOOSE i \in over : \A j \in over : i <= j
              top == SubSeq(path, 1, k)
          IN ValueAt(feature_config, top) = Str(EnvironGet(environ, VariableName(top)))
     ELSE IF raw.kind = "str" THEN resolved = raw
     ELSE resolved.kind = raw.kind /\ Len(resolved.items) = Len(raw.items)

\* A path that goes through no element of a list.
BelowNoElement(path) ==
  \A i \in 1..Len(path) : path[i].index >= 0 => i = Len(path)

\* C32 (as stated): once the feature is configured, for every configuration
\* path under the feature key a non-empty variable DDB_OVERRIDE_<FEATURE>_<PATH>
\* replaces the value at that path, a variable matching an intermediate path
\* replaces the whole subtree, and the other paths keep their configured value.
C32_EnvironOverrides ==
  unit = "overridden" => \A p \in PathsOf(raw_feature_config) : OverriddenAt(p)

\* C32, what the code does: the same for the paths that go through no
\* element of a list (the keys of dicts, and the elements of a list of a dict).
C32_OverridesOutsideElements ==
  unit = "overridden" =>
    \A p \in PathsOf(raw_feature_config) : BelowNoElement(p) => OverriddenAt(p)

\* A dict inside an element of a list, its variable set and not empty, has
\* been resolved.
C32_Witness ==
  /\ unit = "overridden"
  /\ \E p \in PathsOf(raw_feature_config) :
       /\ ~BelowNoElement(p)
       /\ Overriding(p) = {Len(p)}

(***************************************************************************)
(* FixuidDockerComposeAction.execute called on its own.                    *)
(***************************************************************************)
\* What execute is given and finds: the configuration, the directories with
\* a fixuid.yml and whether a step of _apply_fixuid_from_parser raises.
given == <<docker_compose_config, fixuid_yml, stat_before, raising>>

\* Every docker-compose configuration; each build context has a writable
\* Dockerfile and no archive yet.
InitFixuid ==
  /\ unit = "execute"
  /\ IdleOverrides
  /\ IdleShell
  /\ docker_compose_config \in ComposeConfigs
  /\ fixuid_yml \in SUBSET Contexts
  /\ dockerfile_stat = [p \in Paths |-> IF p[2] = DefaultDockerfile THEN File(CreatedMode)
                                        ELSE NoFile]
  /\ stat_before = dockerfile_stat
  /\ raising = ""
  /\ applying = <<>>
  /\ remaining = <<>>
  /\ fixuid_log = <<>>
  /\ fixuid_error = ""

DockerfilePath(service) == Join(service.context, service.dockerfile)

\* execute, lines 211-213: the configuration is kept and the loop starts.
Execute ==
  /\ unit = "execute"
  /\ unit' = "executing"
  /\ remaining' = FixuidServices(docker_compose_config, fixuid_yml)
  /\ UNCHANGED <<program, overriding, shell, given, dockerfile_stat, applying, fixuid_log,
                 fixuid_error>>

\* execute, line 214: apply_fixuid is called with the next service.
ExecuteApply ==
  /\ unit = "executing"
  /\ applying = <<>>
  /\ fixuid_error = ""
  /\ remaining # <<>>
  /\ applying' = <<FixuidFrame(Head(remaining), NoStat, "called", "")>>
  /\ remaining' = Tail(remaining)
  /\ fixuid_log' = Append(fixuid_log, FixuidDid("apply", DockerfilePath(Head(remaining))))
  /\ UNCHANGED <<program, unit, overriding, shell, given, dockerfile_stat, fixuid_error>>

\* execute returns, or the exception of apply_fixuid leaves it.
ExecuteReturn ==
  /\ unit = "executing"
  /\ applying = <<>>
  /\ remaining = <<>> \/ fixuid_error # ""
  /\ unit' = "executed"
  /\ UNCHANGED <<program, overriding, fixuid, shell>>

\* apply_fixuid, lines 141-146: a Dockerfile that is a file and not writable
\* is made writable by its user, its stat kept.
ApplyFixuid ==
  /\ unit = "executing"
  /\ applying # <<>>
  /\ LET top == applying[Len(applying)]
         path == DockerfilePath(top.service)
         st == dockerfile_stat[path]
         unwritable == ~Access(st) /\ IsFile(st)
     IN /\ top.stage = "called"
        /\ dockerfile_stat' =
             IF unwritable
             THEN [dockerfile_stat EXCEPT ![path] = File(st.mode \cup S_IWUSR)]
             ELSE dockerfile_stat
        /\ applying' = [applying EXCEPT ![Len(applying)] =
                          FixuidFrame(top.service, IF unwritable THEN Stat(st) ELSE NoStat,
                                      "try", "")]
        /\ fixuid_log' = IF unwritable THEN Append(fixuid_log, FixuidDid("chmod", path))
                         ELSE fixuid_log
  /\ UNCHANGED <<program, unit, overriding, shell, given, remaining, fixuid_error>>

\* apply_fixuid, lines 149-150, and _apply_fixuid_from_parser, lines 161-189:
\* the Dockerfile is opened for appending (and created if there is none),
\* the image is looked up, the archive is fetched and 'file:generated' is
\* emitted for it; the processor of the binding decides whether apply_fixuid
\* is called again, inside the emission.
ApplyFixuidFromParser ==
  /\ unit = "executing"
  /\ applying # <<>>
  /\ LET top == applying[Len(applying)]
         path == DockerfilePath(top.service)
         target == Join(top.service.context, FixuidArchive)
         opened == IF dockerfile_stat[path].exists THEN dockerfile_stat
                   ELSE [dockerfile_stat EXCEPT ![path] = File(CreatedMode)]
         fetched == IF opened[target].exists THEN opened
                    ELSE [opened EXCEPT ![target] = File(CreatedMode)]
         service == ProcessFileGenerated(docker_compose_config, fixuid_yml, target)
         emitted == fixuid_log \o <<FixuidDid("fetch", target), FixuidDid("emit", target)>>
     IN /\ top.stage = "try"
        /\ IF raising # ""
           THEN /\ dockerfile_stat' = opened
                /\ applying' = [applying EXCEPT ![Len(applying)] =
                                  FixuidFrame(top.service, top.saved, "finally", raising)]
                /\ UNCHANGED fixuid_log
           ELSE /\ dockerfile_stat' = fetched
                /\ IF service = NoService
                   THEN /\ applying' = [applying EXCEPT ![Len(applying)] =
                                          FixuidFrame(top.service, top.saved, "emitted", "")]
                        /\ fixuid_log' = emitted
                   ELSE IF Len(applying) < MaxNesting
                   THEN /\ applying' = Append([applying EXCEPT ![Len(applying)] =
                                                 FixuidFrame(top.service, top.saved,
                                                             "emitted", "")],
                                              FixuidFrame(service, NoStat, "called", ""))
                        /\ fixuid_log' = Append(emitted,
                                                FixuidDid("apply", DockerfilePath(service)))
                   ELSE /\ applying' = [applying EXCEPT ![Len(applying)] =
                                          FixuidFrame(top.service, top.saved, "finally",
                                                      "RecursionError")]
                        /\ fixuid_log' = emitted
  /\ UNCHANGED <<program, unit, overriding, shell, given, remaining, fixuid_error>>

\* _apply_fixuid_from_parser, lines 190-205: the emission has returned and
\* the lines of fixuid are written to the Dockerfile.
AddLines ==
  /\ unit = "executing"
  /\ applying # <<>>
  /\ LET top == applying[Len(applying)]
     IN /\ top.stage = "emitted"
        /\ applying' = [applying EXCEPT ![Len(applying)] =
                          FixuidFrame(top.service, top.saved, "finally", "")]
        /\ fixuid_log' = Append(fixuid_log, FixuidDid("write", DockerfilePath(top.service)))
  /\ UNCHANGED <<program, unit, overriding, shell, given, dockerfile_stat, remaining, fixuid_error>>

\* The finally block that restores the mode only when nothing was raised.
RestoredUnlessRaised(frame, st) ==
  IF frame.saved.taken /\ frame.raised = "" THEN File(frame.saved.mode) ELSE st

\* apply_fixuid, lines 156-158: the finally block; st is the stat of the
\* Dockerfile when the block is entered.
Restored(frame, st) ==
  IF frame.saved.taken THEN File(frame.saved.mode) ELSE st

\* apply_fixuid, lines 155-158: the finally block runs and apply_fixuid
\* returns or lets the exception through, to the emission it was called in
\* or to execute.
ApplyFixuidFinally ==
  /\ unit = "executing"
  /\ applying # <<>>
  /\ LET top == applying[Len(applying)]
         path == DockerfilePath(top.service)
         below == SubSeq(applying, 1, Len(applying) - 1)
     IN /\ top.stage = "finally"
        /\ dockerfile_stat' = [dockerfile_stat EXCEPT ![path] = Restored(top, @)]
        /\ IF top.raised = "" \/ below = <<>>
           THEN applying' = below
           ELSE applying' = [below EXCEPT ![Len(below)] =
                               FixuidFrame(@.service, @.saved, "finally", top.raised)]
        /\ fixuid_error' = IF below = <<>> THEN top.raised ELSE fixuid_error
  /\ UNCHANGED <<program, unit, overriding, shell, given, remaining, fixuid_log>>

(***************************************************************************)
(* C33: the services fixuid is applied to.                                 *)
(***************************************************************************)
\* A service of the configuration with a build entry whose context holds a
\* file fixuid.yml.
HasFixuid(service) == service.build \in {"str", "dict"} /\ service.context \in fixuid_yml

\* The Dockerfile of a service that has a build entry.
DockerfileOf(service) ==
  Join(service.context,
       IF service.dockerfile = "" THEN DefaultDockerfile ELSE service.dockerfile)

\* The indexes of the services of the configuration that have fixuid.
FixuidIndexes ==
  {j \in 1..Len(docker_compose_config.services) :
     docker_compose_config.has_services /\ HasFixuid(docker_compose_config.services[j])}

C33_NoServices ==
  /\ unit = "executed"
  /\ ~docker_compose_config.has_services
  /\ fixuid_yml # {}
  /\ fixuid_log = <<>>

(***************************************************************************)
(* C37: the mode of the Dockerfile.                                        *)
(***************************************************************************)
\* One fixuid service; its Dockerfile is missing or has any mode, and a step
\* of _apply_fixuid_from_parser may raise: the lookup of the image, or the
\* fetch of the archive.
InitModes ==
  /\ unit = "execute"
  /\ IdleOverrides
  /\ IdleShell
  /\ docker_compose_config =
       [has_services |-> TRUE,
        services |-> <<[build |-> "dict", context |-> "p", dockerfile |-> ""]>>]
  /\ fixuid_yml = {"p"}
  /\ \E st \in {NoFile} \cup {File(mode) : mode \in SUBSET ModeBits} :
       dockerfile_stat = [p \in Paths |-> IF p = Join("p", DefaultDockerfile) THEN st
                                          ELSE NoFile]
  /\ stat_before = dockerfile_stat
  /\ raising \in {"", "image", "fetch"}
  /\ applying = <<>>
  /\ remaining = <<>>
  /\ fixuid_log = <<>>
  /\ fixuid_error = ""

\* apply_fixuid is past its chmod, and not past its finally block, for the
\* Dockerfile at path.
Operating(path) ==
  \E i \in 1..Len(applying) :
    /\ DockerfilePath(applying[i].service) = path
    /\ applying[i].stage \in {"try", "emitted", "finally"}

\* C37: apply_fixuid leaves the permission bits of the Dockerfile as they
\* were: a Dockerfile that exists and is not writable is writable by its user
\* during the operation and has its original mode afterwards, whether the
\* operation succeeded or raised; the mode of a writable one never changes.
C37_ModePreserved ==
  \A p \in Paths :
    stat_before[p].exists =>
      /\ dockerfile_stat[p].exists
      /\ unit = "executed" => dockerfile_stat[p].mode = stat_before[p].mode
      /\ Access(stat_before[p]) => dockerfile_stat[p].mode = stat_before[p].mode
      /\ (~Access(stat_before[p]) /\ Operating(p)) =>
           dockerfile_stat[p].mode = stat_before[p].mode \cup S_IWUSR

\* C37 witness: the Dockerfile was not writable, the fetch of the archive has
\* raised out of execute and the mode is the original one.
C37_Witness ==
  /\ unit = "executed"
  /\ fixuid_error = "fetch"
  /\ \E p \in Paths :
       /\ stat_before[p].exists
       /\ ~Access(stat_before[p])
       /\ FixuidDid("chmod", p) \in Range(fixuid_log)
       /\ dockerfile_stat[p] = stat_before[p]

\* C37, the other case: the same after an operation that succeeded.
C37_Succeeded ==
  /\ unit = "executed"
  /\ fixuid_error = ""
  /\ \E p \in Paths :
       /\ stat_before[p].exists
       /\ ~Access(stat_before[p])
       /\ FixuidDid("chmod", p) \in Range(fixuid_log)
       /\ FixuidDid("write", p) \in Range(fixuid_log)
       /\ dockerfile_stat[p] = stat_before[p]

(***************************************************************************)
(* C38: the emission inside apply_fixuid.                                  *)
(***************************************************************************)
\* No service has the archive as its Dockerfile.
NoArchiveDockerfile ==
  \A j \in 1..Len(docker_compose_config.services) :
    docker_compose_config.services[j].dockerfile # FixuidArchive

\* The calls of apply_fixuid so far.
Applied == SelectSeq(fixuid_log, LAMBDA e : e.op = "apply")

\* The k-th service of the configuration that has fixuid.
FixuidService(k) ==
  docker_compose_config.services[
    CHOOSE j \in FixuidIndexes : Cardinality({i \in FixuidIndexes : i <= j}) = k]

C38_Nested ==
  /\ ~NoArchiveDockerfile
  /\ unit = "executed"
  /\ fixuid_error = "RecursionError"

\* ---------------------------------------------------------------------------
\* The shell feature's activation and deactivation, called on their own.

MaxChanges == 1

\* The variables of the environment the unit starts in, beyond PATH.
PlainVariable == <<"A">>
OtherVariable == <<"B">>
ConfigVariable == <<"D", "D", "B", "_", "E", "N", "V">>

\* config.to_environ(): the configuration as environment variables.
ConfigEnviron == (ConfigVariable :> <<"d", "e", "v">>)

\* config.paths.project_home, and a directory of shell.path.directories once
\* joined to the working directory and normalised.
ProjectHome == <<"/", "p">>
PathAddition == <<"/", "p", "/", "b">>

\* The values a variable has: plain ones, and one with a quote and a backslash.
PlainValues == {<<"1">>, <<"\"", "\\", "x">>}

\* The environments the shell starts in: PATH, and possibly a plain variable
\* and a variable the configuration sets too.
InitialEnvirons ==
  {Updated(Updated((PathVariable :> <<"/", "b", "i", "n">>), plain), configured) :
     plain \in {EmptyDict} \cup {(PlainVariable :> v) : v \in PlainValues},
     configured \in {EmptyDict, (ConfigVariable :> <<"o", "l", "d">>)}}

InitShell ==
  /\ unit = "activate"
  /\ IdleOverrides
  /\ IdleFixuid
  /\ shell_environ \in InitialEnvirons
  /\ shell_initial = EmptyDict
  /\ shell_commands = <<>>
  /\ path_directories \in {<<>>, <<PathAddition>>}
  /\ path_prepend \in (IF path_directories = <<>> THEN {FALSE} ELSE BOOLEAN)
  /\ changes = 0

\* add_to_system_path: the value PATH is set to.
AddToSystemPath(env, path) ==
  IF path_prepend
  THEN path \o PathSep \o EnvironGet(env, PathVariable)
  ELSE EnvironGet(env, PathVariable) \o PathSep \o path

\* ActivateAction.execute.
Activate ==
  /\ unit = "activate"
  /\ LET initial_environ == shell_environ
         activated == Updated(Updated(Updated(initial_environ, ConfigEnviron),
                                      (EnvEnvironBackup :> EncodeEnvironBackup(initial_environ))),
                              (EnvProjectHome :> ProjectHome))
     IN /\ shell_initial' = initial_environ
        /\ shell_environ' = activated
        /\ shell_commands' =
             ApplyDiffToShell(initial_environ, activated)
             \o [i \in 1..Len(path_directories) |->
                   SetVariable(PathVariable, AddToSystemPath(activated, path_directories[i]))]
  /\ unit' = "activated"
  /\ UNCHANGED <<program, overriding, fixuid, path_directories, path_prepend, changes>>

\* The shell evaluates the commands of the activation; the processes it
\* starts from then on have its environment.
Evaluate ==
  /\ unit = "activated"
  /\ shell_environ' = Evaluated(shell_initial, shell_commands)
  /\ unit' = "shell"
  /\ UNCHANGED <<program, overriding, fixuid, shell_initial, shell_commands,
                 path_directories, path_prepend, changes>>

\* The user sets or unsets a variable of the activated shell.
Export ==
  /\ unit = "shell"
  /\ changes < MaxChanges
  /\ changes' = changes + 1
  /\ \/ \E key \in {PlainVariable, OtherVariable}, value \in PlainValues :
          shell_environ' = Updated(shell_environ, (key :> value))
     \/ \E key \in {PlainVariable, PathVariable, ConfigVariable, EnvEnvironBackup} :
          shell_environ' = [k \in DOMAIN shell_environ \ {key} |-> shell_environ[k]]
     \/ shell_environ' = Updated(shell_environ, (EnvEnvironBackup :> <<>>))
  /\ UNCHANGED <<program, unit, overriding, fixuid, shell_initial, shell_commands,
                 path_directories, path_prepend>>

\* DeactivateAction.execute.
Deactivate ==
  /\ unit = "shell"
  /\ shell_commands' =
       IF EnvironGet(shell_environ, EnvEnvironBackup) # <<>>
       THEN ApplyDiffToShell(shell_environ,
                             DecodeEnvironBackup(shell_environ[EnvEnvironBackup]))
       ELSE <<>>
  /\ unit' = "deactivated"
  /\ UNCHANGED <<program, overriding, fixuid, shell_environ, shell_initial,
                 path_directories, path_prepend, changes>>

\* The keys that two environments do not agree on.
Differing(env, other) ==
  {k \in DOMAIN env \cup DOMAIN other :
     \/ k \notin DOMAIN env
     \/ k \notin DOMAIN other
     \/ env[k] # other[k]}

\* The commands bring env to other, each differing key once, in ascending
\* order of the keys.
BringsBack(commands, env, other) ==
  /\ {commands[i].key : i \in DOMAIN commands} = Differing(env, other)
  /\ \A i \in DOMAIN commands :
       /\ \A j \in DOMAIN commands : i < j => StrLess(commands[i].key, commands[j].key)
       /\ commands[i] = IF commands[i].key \in DOMAIN other
                        THEN SetVariable(commands[i].key, other[commands[i].key])
                        ELSE RemoveVariable(commands[i].key)
  /\ Evaluated(env, commands) = other

\* C36: activation stores the environment it starts in, encoded, in
\* DDB_SHELL_ENVIRON_BACKUP, and decoding gives that environment back;
\* deactivation in the activated shell gives exactly the set and remove
\* commands that bring the shell back to the environment before the
\* activation, each differing key once in ascending order of the keys; with
\* the backup variable absent or empty it gives no command.
C36_ActivateDeactivateRoundTrip ==
  /\ unit \in {"activated", "shell"} /\ changes = 0 =>
       /\ EnvEnvironBackup \in DOMAIN shell_environ
       /\ shell_environ[EnvEnvironBackup] = EncodeEnvironBackup(shell_initial)
       /\ DecodeEnvironBackup(shell_environ[EnvEnvironBackup]) = shell_initial
  /\ unit = "deactivated" =>
       IF EnvironGet(shell_environ, EnvEnvironBackup) = <<>>
       THEN shell_commands = <<>>
       ELSE BringsBack(shell_commands, shell_environ, shell_initial)

\* A deactivation in an activated shell whose first environment has a value
\* with a quote and a backslash, a variable the configuration replaces and an
\* added PATH directory: it sets and removes variables.
C36_Witness ==
  /\ unit = "deactivated"
  /\ changes = 0
  /\ PlainVariable \in DOMAIN shell_initial
  /\ shell_initial[PlainVariable] = <<"\"", "\\", "x">>
  /\ ConfigVariable \in DOMAIN shell_initial
  /\ path_directories # <<>>
  /\ \E i \in DOMAIN shell_commands : shell_commands[i].op = "set"
  /\ \E i \in DOMAIN shell_commands : shell_commands[i].op = "remove"
  /\ Len(shell_commands) >= 4

\* A deactivation after the user has changed a variable: it is brought back
\* as well.
C36_Changed ==
  /\ unit = "deactivated"
  /\ changes = 1
  /\ OtherVariable \in DOMAIN shell_environ
  /\ \E i \in DOMAIN shell_commands : shell_commands[i] = RemoveVariable(OtherVariable)

\* A deactivation with no backup variable: no command.
C36_NoBackup ==
  /\ unit = "deactivated"
  /\ EnvEnvironBackup \notin DOMAIN shell_environ
  /\ shell_commands = <<>>

InitUnits ==
  /\ NotRunning
  /\ \/ InitOverrides
     \/ InitFixuid
     \/ InitModes
     \/ InitShell

NextUnits ==
  \/ SanitizeAndValidate
  \/ Execute
  \/ ExecuteApply
  \/ ExecuteReturn
  \/ ApplyFixuid
  \/ ApplyFixuidFromParser
  \/ AddLines
  \/ ApplyFixuidFinally
  \/ Activate
  \/ Evaluate
  \/ Export
  \/ Deactivate

SpecUnits == InitUnits /\ [][NextUnits]_vars

====
